---- MODULE Spec2Model ----
(***************************************************************************)
(* A model of the ingestion pipeline of streaming-metrics                  *)
(* (src/utils/update_data.py): the retrying HTTP client, the refresh gate,  *)
(* lookup seeding, platform discovery, the catalog paginator, the chunked   *)
(* detail pull with its field reconciler, the snapshot merge and the        *)
(* cleanup of the staging tables; and of the two filter evaluators of the   *)
(* dashboard (src/utils/DataConnector.py).                                  *)
(*                                                                         *)
(* Conventions.  A Python value that may be None is a sequence: <<>> is     *)
(* None and <<x>> is the value x.  A table is the set of its rows; the      *)
(* SERIAL id of a staging row is the number of the run that inserted it.    *)
(* A float is an exact rational                                             *)
(* [num, den] in lowest terms.  An HTTP exchange is decided by the server:  *)
(* the sequence of responses it will give to the successive requests of a   *)
(* call is an input of the call.                                            *)
(***************************************************************************)
EXTENDS Integers, Sequences, FiniteSets, TLC

VARIABLES
    call,            \* input of the function under study (function-level specifications)
    upstream,        \* what the upstream APIs may answer: "honest" or "any"
    ret,             \* its result, or Pending
    pc,              \* position of the run in main()
    today,           \* datetime.date.today() / CURRENT_DATE, as a day number
    runs,            \* number of runs of main() started so far
    args,            \* [source_type, source_region] of the current run
    analytics,       \* the fact table
    genres,          \* lookup tables
    countries,
    languages,
    platforms,       \* staging tables
    catalogs,
    title_details,
    title_genres,
    title_countries,
    loop,            \* locals of the loop the run is in
    log,             \* what the run has asked of the upstream APIs (history)
    hist             \* what earlier runs have done (history)

vars == <<call, ret, upstream, pc, today, runs, args, analytics, genres, countries, languages,
          platforms, catalogs, title_details, title_genres, title_countries, loop, log,
          hist>>

----------------------------------------------------------------------------
(* Python values *)

None == <<>>
Some(x) == <<x>>
IsNone(o) == o = <<>>
Get(o) == o[1]

\* The result of a call under study: Pending before it returns, <<r>> after.
Pending == <<>>

RECURSIVE SumSeq(_)
SumSeq(s) == IF s = <<>> THEN 0 ELSE Head(s) + SumSeq(Tail(s))

RECURSIVE GCD(_, _)
GCD(a, b) == IF b = 0 THEN a ELSE GCD(b, a % b)

\* The rational n/d (n >= 0, d > 0) in lowest terms.
Rat(n, d) == LET g == GCD(n, d) IN [num |-> n \div g, den |-> d \div g]

----------------------------------------------------------------------------
(* Bounds of the model *)

MaxAttempts == 3        \* largest max_retries tried by SpecRetry
MaxDay == 20            \* largest day number tried by SpecGate
MaxRuns == 2            \* runs of main() in one behaviour of Spec
MaxTotalPages == 3      \* largest total_pages a catalog response reports
MaxTitles == 3          \* most titles staged for the detail pull of SpecChunks
MaxChunkSize == 3       \* largest chunk_size tried by SpecChunks

----------------------------------------------------------------------------
(* Program constants *)

StatusOK == 200
StatusRateLimited == 429
DefaultMaxRetries == 5
RefreshGap == 15
DefaultGap == 15
InitialTotalPages == 2
DefaultChunkSize == 500

\* Other values of response.status_code; requests.get raising (no response at
\* all) is the status 0.
StatusUnauthorized == 401
StatusNotFound == 404
ConnectionError == 0

Statuses == {StatusOK, StatusRateLimited, StatusUnauthorized, StatusNotFound, ConnectionError}
TransientStatuses == {StatusRateLimited}
NonTransientFailures == {StatusUnauthorized, StatusNotFound}

----------------------------------------------------------------------------
(* repeat_get_request *)

\* The while loop of repeat_get_request from the state (status_code, attempts):
\* a request while the last status is not 200 and attempts remain; the result
\* is the number of requests made, the value returned (None after a failure)
\* and whether requests.get raised.
RECURSIVE repeat_loop(_, _, _, _)
repeat_loop(responses, max_retries, status_code, attempts) ==
    IF status_code # StatusOK /\ attempts < max_retries
    THEN LET response == responses[attempts + 1] IN
         IF response.status_code = ConnectionError
         THEN [raised |-> TRUE, requests |-> attempts + 1, value |-> None]
         ELSE repeat_loop(responses, max_retries, response.status_code, attempts + 1)
    ELSE [raised |-> FALSE, requests |-> attempts,
          value |-> IF status_code = StatusOK THEN Some(responses[attempts].json) ELSE None]

\* repeat_get_request with the loop guard `attempts <= max_retries`.
repeat_get_request_one_more(responses, max_retries) ==
    repeat_loop(responses, max_retries + 1, StatusRateLimited, 0)

repeat_get_request(responses, max_retries) ==
    repeat_loop(responses, max_retries, StatusRateLimited, 0)

\* The responses of a server that answers with the statuses of `stream` and
\* the body `json`.
Responses(stream, json) ==
    [i \in 1..Len(stream) |-> [status_code |-> stream[i], json |-> json]]

----------------------------------------------------------------------------
(* check_refresh *)

\* The gate left open: a refresh whatever the date of the last snapshot.
check_refresh_always(last_update, date_today, gap) == TRUE

\* The gate one day short: a refresh on the last day of the gap.
check_refresh_day_short(last_update, date_today, gap) ==
    IF ~IsNone(last_update) /\ date_today - Get(last_update) < RefreshGap - 1
    THEN FALSE
    ELSE TRUE

\* last_update is MAX(date) of the fact table: None when it has no row.
check_refresh(last_update, date_today, gap) ==
    IF ~IsNone(last_update) /\ date_today - Get(last_update) < RefreshGap
    THEN FALSE
    ELSE TRUE

----------------------------------------------------------------------------
(* The field reconciler of pull_tmdb_details *)

\* The fields pull_tmdb_details keeps of a TMDB response (response.get(key):
\* None for a key the response does not have).
DetailKeys == {"id", "vote_average", "vote_count", "popularity", "original_language",
               "origin_country", "genres", "title", "release_date", "runtime", "status",
               "name", "first_air_date", "episode_run_time", "number_of_episodes"}

\* np.mean(episode_run_time) * number_of_episodes
estimate_runtime(episode_run_time, number_of_episodes) ==
    Rat(SumSeq(episode_run_time) * number_of_episodes, Len(episode_run_time))

\* The runtime rule with the sum of the episode run times in place of their mean.
reconcile_runtime_sum(response) ==
    IF IsNone(response.runtime)
    THEN IF /\ ~IsNone(response.episode_run_time)
            /\ Len(Get(response.episode_run_time)) > 0
            /\ ~IsNone(response.number_of_episodes)
         THEN Some(Rat(SumSeq(Get(response.episode_run_time))
                         * Get(response.number_of_episodes), 1))
         ELSE None
    ELSE response.runtime

\* "Estimate runtime for tv shows"
reconcile_runtime(response) ==
    IF IsNone(response.runtime)
    THEN IF /\ ~IsNone(response.episode_run_time)
            /\ Len(Get(response.episode_run_time)) > 0
            /\ ~IsNone(response.number_of_episodes)
         THEN Some(estimate_runtime(Get(response.episode_run_time),
                                    Get(response.number_of_episodes)))
         ELSE None
    ELSE response.runtime

\* The unified record built from a response and the catalog row it was
\* fetched for.
reconcile(response, row) ==
    [response EXCEPT
        !.title = IF IsNone(response.title) THEN response.name ELSE @,
        !.release_date = IF IsNone(response.release_date)
                         THEN response.first_air_date ELSE @,
        !.runtime = reconcile_runtime(response)]
    @@ [tmdb_id |-> row.tmdb_id, tmdb_type |-> row.tmdb_type, title_id |-> row.title_id]

----------------------------------------------------------------------------
(* The state of a fresh deployment: no table has a row, no run has started *)

NoArgs == [source_type |-> "", source_region |-> ""]
NoLoop == [at |-> "none"]
NoLog == [sources |-> None, discovered |-> None, lookups |-> {}]
NoHist == [seeded |-> {}]

FreshTables ==
    /\ analytics = {} /\ genres = {} /\ countries = {} /\ languages = {}
    /\ platforms = {} /\ catalogs = {} /\ title_details = {}
    /\ title_genres = {} /\ title_countries = {}

NoRun ==
    /\ upstream = "honest"
    /\ pc = "idle" /\ today = 0 /\ runs = 0 /\ args = NoArgs
    /\ loop = NoLoop /\ log = NoLog /\ hist = NoHist
    /\ FreshTables

runVars == <<pc, today, runs, args, analytics, genres, countries, languages,
             platforms, catalogs, title_details, title_genres, title_countries, loop, log,
          hist>>

----------------------------------------------------------------------------
(* SpecRetry: repeat_get_request on every server behaviour and max_retries *)

RetryInputs ==
    [max_retries : 1..MaxAttempts,
     stream : [1..(MaxAttempts + 1) -> Statuses]]

InitRetry ==
    /\ call \in RetryInputs
    /\ ret = Pending
    /\ NoRun

RetryCall ==
    /\ ret = Pending
    /\ ret' = Some(repeat_get_request(Responses(call.stream, "json"), call.max_retries))
    /\ UNCHANGED <<call, upstream, runVars>>

NextRetry == RetryCall

SpecRetry == InitRetry /\ [][NextRetry]_vars

\* C1: when the endpoint answers every request with 429, repeat_get_request
\* makes exactly max_retries requests and returns None without raising.
C1_RateLimitedExhausts ==
    (ret # Pending /\ \A i \in DOMAIN call.stream : call.stream[i] = StatusRateLimited)
        => /\ Get(ret).requests = call.max_retries
           /\ IsNone(Get(ret).value)
           /\ ~Get(ret).raised

C1_Witness ==
    /\ ret # Pending
    /\ \A i \in DOMAIN call.stream : call.stream[i] = StatusRateLimited
    /\ call.max_retries = MaxAttempts
    /\ Get(ret).requests = MaxAttempts

\* C2: a request is retried only while the response status is transient (429):
\* after a response whose failure status is not transient (401, 404) no
\* further request is made.
C2_NonTransientNotRetried ==
    (ret # Pending /\ call.stream[1] \in NonTransientFailures)
        => Get(ret).requests = 1

----------------------------------------------------------------------------
(* SpecGate: check_refresh on every last snapshot date, today and gap *)

GateGaps == {DefaultGap - 5, DefaultGap, DefaultGap + 5}

GateInputs ==
    { c \in [last_update : {None} \cup {Some(d) : d \in 0..MaxDay},
             today : 0..MaxDay,
             gap : GateGaps] :
        IsNone(c.last_update) \/ Get(c.last_update) <= c.today }

InitGate ==
    /\ call \in GateInputs
    /\ ret = Pending
    /\ NoRun

GateCall ==
    /\ ret = Pending
    /\ ret' = Some(check_refresh(call.last_update, call.today, call.gap))
    /\ UNCHANGED <<call, upstream, runVars>>

NextGate == GateCall

SpecGate == InitGate /\ [][NextGate]_vars

\* C6: check_refresh returns false exactly when a snapshot exists and
\* today - lastSnapshotDate < gap, and true otherwise.
C6_GateUsesGap ==
    ret # Pending
        => (Get(ret) = ~(/\ ~IsNone(call.last_update)
                         /\ call.today - Get(call.last_update) < call.gap))

----------------------------------------------------------------------------
(* SpecReconcile: the field reconciler on every shape of response *)

BaseResponse ==
    [k \in DetailKeys |-> None]

ReconcileResponses ==
    { [BaseResponse EXCEPT !.title = c.title, !.name = c.name,
                           !.release_date = c.release_date,
                           !.first_air_date = c.first_air_date,
                           !.runtime = c.runtime,
                           !.episode_run_time = c.episode_run_time,
                           !.number_of_episodes = c.number_of_episodes] :
        c \in [title : {None, Some("Alien")},
               name : {None, Some("Lost")},
               release_date : {None, Some(1979)},
               first_air_date : {None, Some(2004)},
               runtime : {None, Some(Rat(0, 1)), Some(Rat(117, 1))},
               episode_run_time : {None, Some(<<>>), Some(<<22, 24, 26>>),
                                   Some(<<45>>), Some(<<20, 25>>)},
               number_of_episodes : {None, Some(0), Some(3), Some(10)}] }

ReconcileRow == [title_id |-> 1, tmdb_id |-> 11, tmdb_type |-> "tv"]

InitReconcile ==
    /\ call \in [response : ReconcileResponses, row : {ReconcileRow}]
    /\ ret = Pending
    /\ NoRun

ReconcileCall ==
    /\ ret = Pending
    /\ ret' = Some(reconcile(call.response, call.row))
    /\ UNCHANGED <<call, upstream, runVars>>

NextReconcile == ReconcileCall

SpecReconcile == InitReconcile /\ [][NextReconcile]_vars

CanEstimate(response) ==
    /\ ~IsNone(response.episode_run_time)
    /\ Get(response.episode_run_time) # <<>>
    /\ ~IsNone(response.number_of_episodes)

\* C10: a record with a runtime keeps it; a record without one gets
\* mean(episode_run_time) * number_of_episodes when episode_run_time is a
\* non-empty list and number_of_episodes is present ([22,24,26] and 10 give
\* 240), and stays without a runtime otherwise.
C10_RuntimeRule ==
    ret # Pending =>
        LET response == call.response
            runtime == Get(ret).runtime
        IN  /\ ~IsNone(response.runtime) => runtime = response.runtime
            /\ (IsNone(response.runtime) /\ ~CanEstimate(response)) => IsNone(runtime)
            /\ (IsNone(response.runtime) /\ CanEstimate(response)) =>
                   /\ ~IsNone(runtime)
                   /\ Get(runtime).num * Len(Get(response.episode_run_time))
                        = Get(runtime).den * SumSeq(Get(response.episode_run_time))
                                           * Get(response.number_of_episodes)
            /\ (/\ IsNone(response.runtime)
                /\ response.episode_run_time = Some(<<22, 24, 26>>)
                /\ response.number_of_episodes = Some(10))
                   => runtime = Some([num |-> 240, den |-> 1])

C10_Witness ==
    /\ ret # Pending
    /\ IsNone(call.response.runtime)
    /\ call.response.episode_run_time = Some(<<22, 24, 26>>)
    /\ call.response.number_of_episodes = Some(10)
    /\ Get(ret).runtime = Some([num |-> 240, den |-> 1])

----------------------------------------------------------------------------
(* The upstream APIs *)

\* What a call of repeat_get_request with the default max_retries may meet:
\* success at once, success after two rate-limited answers, rate limiting to
\* exhaustion, an authentication failure on every attempt, no connection.
StreamOf(first, rest) == [i \in 1..DefaultMaxRetries |-> IF i <= 2 THEN first ELSE rest]

FetchStreams ==
    { StreamOf(StatusOK, StatusOK),
      StreamOf(StatusRateLimited, StatusOK),
      StreamOf(StatusRateLimited, StatusRateLimited),
      StreamOf(StatusUnauthorized, StatusUnauthorized),
      StreamOf(ConnectionError, ConnectionError) }

Fetch(stream, json) == repeat_get_request(Responses(stream, json), DefaultMaxRetries)

Failed(r) == r.raised \/ IsNone(r.value)

\* TMDB reference lists.
TmdbMovieGenres == {[id |-> 28, name |-> "Action"], [id |-> 18, name |-> "Drama"]}
TmdbTvGenres == {[id |-> 10762, name |-> "Kids"], [id |-> 18, name |-> "Drama"]}
TmdbCountries ==
    {[iso_3166_1 |-> "US", english_name |-> "United States of America",
      native_name |-> "United States"]}
TmdbLanguages ==
    {[iso_639_1 |-> "en", english_name |-> "English", name |-> "English"],
     [iso_639_1 |-> "ht", english_name |-> "Haitian; Haitian Creole", name |-> ""]}

\* Watchmode sources, and the lists the sources endpoint may answer a query
\* with (a source may come and go between two runs).
WatchmodeSources ==
    {[id |-> 1, name |-> "Netflix", type |-> "sub", region |-> "US"],
     [id |-> 2, name |-> "Hulu", type |-> "sub", region |-> "US"],
     [id |-> 3, name |-> "Tubi", type |-> "free", region |-> "CA"]}

SourcesMatching(types, regions) ==
    {src \in WatchmodeSources : src.type = types /\ src.region = regions}

SourceLists(types, regions) == SUBSET SourcesMatching(types, regions) \ {{}}

\* Watchmode title stubs and the pages of each source's listing.
StubAlien == [id |-> 101, tmdb_id |-> 11, tmdb_type |-> "movie"]
StubLost == [id |-> 102, tmdb_id |-> 12, tmdb_type |-> "tv"]

Listing(source_id) ==
    CASE source_id = 1 -> <<{StubAlien}, {StubLost}>>
      [] source_id = 2 -> <<{StubAlien}>>
      [] OTHER -> <<{}>>

PageTitles(source_id, page) ==
    IF page \in DOMAIN Listing(source_id) THEN Listing(source_id)[page] ELSE {}

\* What the list-titles endpoint may answer the request of `page` with.  An
\* honest server reports the page asked for and the length of the listing; any
\* other may report any page and total_pages, and may leave the titles out.
PageAnswers(source_id, page) ==
    IF upstream = "honest"
    THEN {[titles |-> PageTitles(source_id, page), page |-> page,
           total_pages |-> Len(Listing(source_id))]}
    ELSE [titles : {PageTitles(source_id, page), {}},
          page : 1..MaxTotalPages,
          total_pages : 0..MaxTotalPages]

Date(y, m, d) == [year |-> y, month |-> m, day |-> d]

\* TMDB details of a title, as response.get(key) sees them.
TmdbDetails(tmdb_type, tmdb_id) ==
    IF tmdb_type = "movie"
    THEN [BaseResponse EXCEPT
            !.id = Some(tmdb_id), !.title = Some("Alien"),
            !.release_date = Some(Date(1979, 5, 25)),
            !.runtime = Some(Rat(117, 1)), !.status = Some("Released"),
            !.vote_average = Some(Rat(81, 10)), !.vote_count = Some(14000),
            !.popularity = Some(Rat(60, 1)),
            !.original_language = Some("en"),
            !.origin_country = Some(<<Some("US"), Some("GB")>>),
            !.genres = Some(<<Some([id |-> 28, name |-> Some("Action")]),
                              Some([id |-> 18, name |-> Some("Drama")]),
                              Some([id |-> 27, name |-> Some("Horror")])>>)]
    ELSE [BaseResponse EXCEPT
            !.id = Some(tmdb_id), !.name = Some("Lost"),
            !.first_air_date = Some(Date(2004, 9, 22)),
            !.episode_run_time = Some(<<22, 24, 26>>),
            !.number_of_episodes = Some(10), !.status = Some("Ended"),
            !.vote_average = Some(Rat(79, 10)), !.vote_count = Some(4000),
            !.popularity = Some(Rat(45, 1)),
            !.original_language = Some("xx"),
            !.origin_country = Some(<<>>),
            !.genres = Some(<<>>)]

\* What the details endpoint may answer for a title: the documented shape,
\* or, for a tv title, a body without the genres key, and, against one run, a
\* body without the origin_country key or with another original language.
DetailAnswers(tmdb_type, tmdb_id) ==
    LET details == TmdbDetails(tmdb_type, tmdb_id) IN
    IF tmdb_type = "movie" THEN {details}
    ELSE {details, [details EXCEPT !.genres = None]}
         \cup (IF upstream = "any"
               THEN {[details EXCEPT !.origin_country = None],
                     [details EXCEPT !.original_language = Some("ht")]}
               ELSE {})

ArgChoices ==
    {[source_type |-> "sub", source_region |-> "US"],
     [source_type |-> "free", source_region |-> "CA"]}

\* Days between the starts of two runs.
DayJumps == {0, RefreshGap - 1, RefreshGap}

----------------------------------------------------------------------------
(* main(): one run of the pipeline *)

tableVars == <<analytics, genres, countries, languages, platforms, catalogs,
               title_details, title_genres, title_countries>>
stagingVars == <<platforms, catalogs, title_details, title_genres, title_countries>>
lookupVars == <<genres, countries, languages>>

\* The process has ended: by returning from main or by an uncaught exception.
Ended == pc \in {"idle", "done", "skipped", "crashed"}

\* python -m update_data -t source_type -r source_region, some days after the
\* previous run.  A scheduled job has its command line from the start (args
\* is set in the initial state) and every run has the same.
StartRun ==
    /\ Ended
    /\ runs < MaxRuns
    /\ \E a \in (IF args = NoArgs THEN ArgChoices ELSE {args}),
          days \in (IF runs = 0 THEN {0} ELSE DayJumps) :
          /\ args' = a
          /\ today' = today + days
    /\ runs' = runs + 1
    /\ pc' = "create_tables"
    /\ loop' = NoLoop
    /\ log' = NoLog
    /\ UNCHANGED <<call, ret, upstream, tableVars, hist>>

\* CREATE TABLE IF NOT EXISTS: an existing table keeps its rows, a dropped one
\* comes back empty.
create_tables ==
    /\ pc = "create_tables"
    /\ pc' = "check_refresh"
    /\ UNCHANGED <<call, ret, upstream, today, runs, args, tableVars, loop, log, hist>>

\* SELECT MAX(date) FROM analytics
MaxDate(rows) ==
    IF rows = {} THEN None
    ELSE Some(CHOOSE d \in {r.date : r \in rows} : \A r \in rows : r.date <= d)

\* main() ending with an error when the gate declines.
CheckRefreshOrFail ==
    /\ pc = "check_refresh"
    /\ pc' = IF check_refresh(MaxDate(analytics), today, DefaultGap)
             THEN "pull_genres" ELSE "crashed"
    /\ UNCHANGED <<call, ret, upstream, today, runs, args, tableVars, loop, log, hist>>

\* if check_refresh(engine): ... else: log and return.
CheckRefresh ==
    /\ pc = "check_refresh"
    /\ pc' = IF check_refresh(MaxDate(analytics), today, DefaultGap)
             THEN "pull_genres" ELSE "skipped"
    /\ UNCHANGED <<call, ret, upstream, today, runs, args, tableVars, loop, log, hist>>

----------------------------------------------------------------------------
(* Lookup seeding *)

\* SELECT COUNT(*) FROM table
table_count(table) == Cardinality(table)

genre_key ==
    [name \in {"Action", "Adventure", "War", "Fantasy", "Science Fiction", "Music",
               "Kids", "News", "Reality", "Soap", "Talk", "History", "Romance",
               "Thriller"} |->
        CASE name \in {"Action", "Adventure"} -> "Action & Adventure"
          [] name = "War" -> "War & Politics"
          [] name \in {"Fantasy", "Science Fiction"} -> "Sci-Fi & Fantasy"
          [] name = "Music" -> "Musical"
          [] name \in {"Kids", "News", "Reality", "Soap", "Talk"} -> name \o " (tv)"
          [] OTHER -> name \o " (movie)"]

unified_name(name) == IF name \in DOMAIN genre_key THEN genre_key[name] ELSE name

\* The rows written to the genres table from the two genre lists.
GenreRows(movie_genres, tv_genres) ==
    LET typed == {[id |-> g.id, name |-> g.name, tmdb_type |-> "tv"] : g \in tv_genres}
                 \cup {[id |-> g.id, name |-> g.name, tmdb_type |-> "movie"] :
                         g \in movie_genres}
                 \cup {[id |-> -1, name |-> "Musical", tmdb_type |-> "tv"]}
    IN  {[tmdb_genre_id |-> g.id, tmdb_type |-> g.tmdb_type, tmdb_name |-> g.name,
          unified_name |-> unified_name(g.name)] : g \in typed}

Logged(endpoints) == [log EXCEPT !.lookups = @ \cup endpoints]
Seeded(name) == [hist EXCEPT !.seeded = @ \cup {name}]

\* The guard of pull_genres_table with the test of the row count left out.
genres_empty_always == TRUE

genres_empty == table_count(genres) = 0

pull_genres_table ==
    /\ pc = "pull_genres"
    /\ IF genres_empty
       THEN \E s1 \in FetchStreams, s2 \in FetchStreams :
              LET movie_genres == Fetch(s1, [genres |-> TmdbMovieGenres])
                  tv_genres == Fetch(s2, [genres |-> TmdbTvGenres])
              IN  IF Failed(movie_genres)
                  THEN \* requests.get raised, or None["genres"] raises TypeError
                       /\ pc' = "crashed"
                       /\ log' = Logged({"genre/movie/list"})
                       /\ UNCHANGED <<genres, hist>>
                  ELSE IF Failed(tv_genres)
                  THEN /\ pc' = "crashed"
                       /\ log' = Logged({"genre/movie/list", "genre/tv/list"})
                       /\ UNCHANGED <<genres, hist>>
                  ELSE /\ genres' = genres \cup GenreRows(Get(movie_genres.value).genres,
                                                          Get(tv_genres.value).genres)
                       /\ pc' = "pull_countries"
                       /\ log' = Logged({"genre/movie/list", "genre/tv/list"})
                       /\ hist' = Seeded("genres")
       ELSE /\ pc' = "pull_countries"
            /\ hist' = Seeded("genres")
            /\ UNCHANGED <<genres, log>>
    /\ UNCHANGED <<call, ret, upstream, today, runs, args, analytics, countries, languages,
                   stagingVars, loop>>

\* pd.DataFrame(None) is the empty frame: a pull that returned None writes no row.
CountryRows(value) ==
    IF IsNone(value) THEN {}
    ELSE {[country_code |-> c.iso_3166_1, english_name |-> c.english_name,
           native_name |-> c.native_name] : c \in Get(value)}

pull_countries_table ==
    /\ pc = "pull_countries"
    /\ IF table_count(countries) = 0
       THEN \E s \in FetchStreams :
              LET r == Fetch(s, TmdbCountries)
              IN  IF r.raised
                  THEN /\ pc' = "crashed"
                       /\ log' = Logged({"configuration/countries"})
                       /\ UNCHANGED <<countries, hist>>
                  ELSE /\ countries' = countries \cup CountryRows(r.value)
                       /\ pc' = "pull_languages"
                       /\ log' = Logged({"configuration/countries"})
                       /\ hist' = Seeded("countries")
       ELSE /\ pc' = "pull_languages"
            /\ hist' = Seeded("countries")
            /\ UNCHANGED <<countries, log>>
    /\ UNCHANGED <<call, ret, upstream, today, runs, args, analytics, genres, languages,
                   stagingVars, loop>>

LanguageRows(value) ==
    IF IsNone(value) THEN {}
    ELSE {[language_code |-> l.iso_639_1, english_name |-> l.english_name,
           name |-> l.name] : l \in Get(value)}

pull_languages_table ==
    /\ pc = "pull_languages"
    /\ IF table_count(languages) = 0
       THEN \E s \in FetchStreams :
              LET r == Fetch(s, TmdbLanguages)
              IN  IF r.raised
                  THEN /\ pc' = "crashed"
                       /\ log' = Logged({"configuration/languages"})
                       /\ UNCHANGED <<languages, hist>>
                  ELSE /\ languages' = languages \cup LanguageRows(r.value)
                       /\ pc' = "pull_sources"
                       /\ log' = Logged({"configuration/languages"})
                       /\ hist' = Seeded("languages")
       ELSE /\ pc' = "pull_sources"
            /\ hist' = Seeded("languages")
            /\ UNCHANGED <<languages, log>>
    /\ UNCHANGED <<call, ret, upstream, today, runs, args, analytics, genres, countries,
                   stagingVars, loop>>

----------------------------------------------------------------------------
(* Platform discovery *)

\* The params of the sources request.  log.sources keeps them, and
\* log.discovered the rows built from the answer; the run column of a
\* platform row is the run that inserted it (history).
sources_params(source_type, source_region) == [types |-> "sub", regions |-> "US"]

\* DataFrame.to_sql(if_exists="append") into a table with a primary key: the
\* insert is one transaction, and a row whose key the table already holds (or
\* that another row of the frame shares) fails it with an IntegrityError.
PlatformKey(row) == row.platform_id

KeyConflict(table, rows) ==
    \/ \E r \in rows : \E t \in table : PlatformKey(r) = PlatformKey(t)
    \/ \E r1 \in rows, r2 \in rows : r1 # r2 /\ PlatformKey(r1) = PlatformKey(r2)

pull_watchmode_sources ==
    /\ pc = "pull_sources"
    /\ LET params == sources_params(args.source_type, args.source_region) IN
       /\ \E s \in FetchStreams, answer \in SourceLists(params.types, params.regions) :
            LET r == Fetch(s, answer)
                rows == {[platform_id |-> src.id, name |-> src.name,
                          region |-> args.source_region,
                          type |-> args.source_type, run |-> runs] :
                            src \in Get(r.value)}
            IN  IF Failed(r)
                THEN \* requests.get raised, or iterating None raises TypeError
                     /\ pc' = "crashed"
                     /\ log' = [log EXCEPT !.sources = Some(params)]
                     /\ UNCHANGED platforms
                ELSE IF KeyConflict(platforms, rows)
                THEN /\ pc' = "crashed"
                     /\ log' = [log EXCEPT !.sources = Some(params),
                                           !.discovered = Some(rows)]
                     /\ UNCHANGED platforms
                ELSE /\ platforms' = platforms \cup rows
                     /\ log' = [log EXCEPT !.sources = Some(params),
                                           !.discovered = Some(rows)]
                     /\ pc' = "pull_catalogs"
    /\ UNCHANGED <<call, ret, upstream, today, runs, args, analytics, lookupVars, catalogs,
                   title_details, title_genres, title_countries, loop, hist>>

----------------------------------------------------------------------------
(* Catalog pull: the paginator *)

\* SELECT * FROM platforms
CatalogsRead ==
    /\ pc = "pull_catalogs"
    /\ loop' = [at |-> "platforms", todo |-> platforms]
    /\ pc' = "catalog_rows"
    /\ UNCHANGED <<call, ret, upstream, today, runs, args, tableVars, log, hist>>

\* for row in platforms.itertuples(): the query has no ORDER BY, so the rows
\* come in any order.  A new platform starts at page 1 with total_pages 2.
CatalogNextRow ==
    /\ pc = "catalog_rows"
    /\ IF loop.todo = {}
       THEN /\ pc' = "pull_details"
            /\ loop' = NoLoop
       ELSE \E row \in loop.todo :
              /\ loop' = [at |-> "pages", todo |-> loop.todo \ {row}, row |-> row,
                          results |-> {}, page |-> 1,
                          total_pages |-> InitialTotalPages,
                          request |-> None, reported |-> None, echoed |-> TRUE,
                          outcome |-> "none", steady |-> TRUE,
                          asked |-> <<>>, totals |-> {}, seen |-> {}]
              /\ pc' = "catalog_while"
    /\ UNCHANGED <<call, ret, upstream, today, runs, args, tableVars, log, hist>>

\* while page < total_pages: the last page is never asked for.
page_guard_strict(page, total_pages) == page < total_pages

\* while page <= total_pages, with the bound never read from the responses.
page_guard_stale(page, total_pages) == page <= InitialTotalPages

page_guard(page, total_pages) == page <= total_pages

\* One iteration of the while loop: the request of `page`, whose response
\* reports its own page and total_pages.  loop.request keeps the page asked
\* for and the total_pages the previous response had reported, loop.echoed
\* whether every response so far reported the page asked for, loop.outcome
\* what the fetch ended with, loop.steady whether every response so far
\* reported the page asked for and one same total_pages, and, while it did,
\* loop.asked the pages asked for so far, loop.totals the total_pages
\* reported and loop.seen the titles each response carried (history).
CatalogPage ==
    /\ pc = "catalog_while"
    /\ page_guard(loop.page, loop.total_pages)
    /\ \E s \in FetchStreams, answer \in PageAnswers(loop.row.platform_id, loop.page) :
          LET page_results == Fetch(s, answer)
              asked == Some([page |-> loop.page, reported |-> loop.reported])
              pages == IF loop.steady THEN Append(loop.asked, loop.page) ELSE <<>>
              steady == /\ loop.steady
                        /\ ~Failed(page_results)
                        /\ Get(page_results.value).page = loop.page
                        /\ loop.totals \subseteq {Get(page_results.value).total_pages}
          IN  IF Failed(page_results)
              THEN \* requests.get raised, or None.get raises AttributeError
                   /\ pc' = "crashed"
                   /\ loop' = [loop EXCEPT !.request = asked,
                                           !.asked = pages,
                                           !.outcome = IF page_results.raised
                                                       THEN "raised" ELSE "missing"]
              ELSE /\ loop' = [loop EXCEPT
                                !.results = @ \cup Get(page_results.value).titles,
                                !.page = Get(page_results.value).page + 1,
                                !.total_pages = Get(page_results.value).total_pages,
                                !.request = asked,
                                !.outcome = "fetched",
                                !.reported = Some(Get(page_results.value).total_pages),
                                !.echoed = @ /\ Get(page_results.value).page = loop.page,
                                !.steady = steady,
                                !.asked = IF steady THEN pages ELSE <<>>,
                                !.totals = IF steady
                                           THEN {Get(page_results.value).total_pages}
                                           ELSE {},
                                !.seen = IF steady
                                         THEN @ \cup {[page |-> loop.page,
                                                       titles |-> Get(page_results.value).titles]}
                                         ELSE {}]
                   /\ pc' = "catalog_while"
    /\ UNCHANGED <<call, ret, upstream, today, runs, args, tableVars, log, hist>>

\* The save without its guard: the frame of no result has no column "type"
\* to drop, and the KeyError ends the run.
CatalogSaveUnguarded ==
    /\ pc = "catalog_while"
    /\ ~page_guard(loop.page, loop.total_pages)
    /\ catalogs' = catalogs \cup
          {[title_id |-> t.id, tmdb_id |-> t.tmdb_id, tmdb_type |-> t.tmdb_type,
            platform_type |-> loop.row.type, platform_region |-> loop.row.region,
            platform_id |-> loop.row.platform_id, run |-> runs] : t \in loop.results}
    /\ IF loop.results = {}
       THEN pc' = "crashed" /\ loop' = loop
       ELSE pc' = "catalog_rows" /\ loop' = [at |-> "platforms", todo |-> loop.todo]
    /\ UNCHANGED <<call, ret, upstream, today, runs, args, analytics, lookupVars, platforms,
                   title_details, title_genres, title_countries, log, hist>>

\* After the while loop: "Save results (if anything was returned for the platform)".
CatalogSave ==
    /\ pc = "catalog_while"
    /\ ~page_guard(loop.page, loop.total_pages)
    /\ catalogs' = catalogs \cup
          {[title_id |-> t.id, tmdb_id |-> t.tmdb_id, tmdb_type |-> t.tmdb_type,
            platform_type |-> loop.row.type, platform_region |-> loop.row.region,
            platform_id |-> loop.row.platform_id, run |-> runs] : t \in loop.results}
    /\ loop' = [at |-> "platforms", todo |-> loop.todo]
    /\ pc' = "catalog_rows"
    /\ UNCHANGED <<call, ret, upstream, today, runs, args, analytics, lookupVars, platforms,
                   title_details, title_genres, title_countries, log, hist>>

----------------------------------------------------------------------------
(* Detail pull *)

TypeRank(tmdb_type) == IF tmdb_type = "movie" THEN 0 ELSE 1

TitleBefore(a, b) ==
    \/ a.tmdb_id < b.tmdb_id
    \/ a.tmdb_id = b.tmdb_id /\ TypeRank(a.tmdb_type) < TypeRank(b.tmdb_type)

RECURSIVE Ordered(_)
Ordered(rows) ==
    IF rows = {} THEN <<>>
    ELSE LET first == CHOOSE r \in rows : \A o \in rows : ~TitleBefore(o, r)
         IN  <<first>> \o Ordered(rows \ {first})

\* SELECT DISTINCT title_id, tmdb_id, tmdb_type FROM catalogs ORDER BY tmdb_id, tmdb_type
DistinctTitles(rows) ==
    Ordered({[title_id |-> c.title_id, tmdb_id |-> c.tmdb_id, tmdb_type |-> c.tmdb_type] :
                c \in rows})

Min(a, b) == IF a < b THEN a ELSE b

Range(f) == {f[i] : i \in DOMAIN f}

\* The columns of title_details.
DetailRow(r) ==
    [title_id |-> r.title_id, tmdb_id |-> r.tmdb_id, tmdb_type |-> r.tmdb_type,
     title |-> r.title, original_language |-> r.original_language,
     release_date |-> r.release_date, status |-> r.status, runtime |-> r.runtime,
     vote_average |-> r.vote_average, vote_count |-> r.vote_count,
     popularity |-> r.popularity, run |-> runs]

\* [i.get("name") for i in x if i is not None], exploded, rows without a genre dropped.
GenreRelations(r) ==
    {[title_id |-> r.title_id, tmdb_type |-> r.tmdb_type, genre |-> Get(Get(g).name),
      run |-> runs] :
        g \in {e \in Range(Get(r.genres)) : ~IsNone(e) /\ ~IsNone(Get(e).name)}}

\* origin_country exploded, rows without a country code dropped.
CountryRelations(r) ==
    IF IsNone(r.origin_country) THEN {}
    ELSE {[title_id |-> r.title_id, country_code |-> Get(c), run |-> runs] :
            c \in {e \in Range(Get(r.origin_country)) : ~IsNone(e)}}

\* while (i + 1) * chunk_size <= len(titles): the last, shorter chunk is left out.
chunk_guard_whole(i, chunk_size, titles) == (i + 1) * chunk_size <= Len(titles)

\* while i * chunk_size < len(titles)
chunk_guard(i, chunk_size, titles) == i * chunk_size < Len(titles)

\* pull_tmdb_details(engine) in main, pull_tmdb_details(engine, chunk_size) in
\* a call under study.  loop.chunks keeps the titles whose fetch each chunk
\* attempted and loop.fetched the number of responses kept (history).
DetailsRead ==
    /\ pc = "pull_details"
    /\ loop' = [at |-> "chunks", titles |-> DistinctTitles(catalogs), i |-> 0,
                missing |-> 0,
                chunk_size |-> IF call = None THEN DefaultChunkSize ELSE call.chunk_size,
                outcomes |-> <<>>, chunk_results |-> {}, chunks |-> <<>>, fetched |-> 0]
    /\ pc' = "details_while"
    /\ UNCHANGED <<call, ret, upstream, today, runs, args, tableVars, log, hist>>

\* Whether the frame of a chunk's results has the columns the chunk selects:
\* pd.DataFrame([]) has no column at all.
has_columns(chunk_results) == chunk_results # {}

\* One chunk: the fetch of each of its titles, the reconciliation of each
\* response, and the three writes.  loop.outcomes keeps what each fetch of the
\* chunk ended with and loop.chunk_results the records of the chunk (history).
DetailsChunk ==
    /\ pc = "details_while"
    /\ chunk_guard(loop.i, loop.chunk_size, loop.titles)
    /\ LET lo == loop.i * loop.chunk_size + 1
           hi == Min((loop.i + 1) * loop.chunk_size, Len(loop.titles))
           chunk == [k \in 1..(hi - lo + 1) |-> loop.titles[lo + k - 1]]
           bodies == UNION {DetailAnswers(t.tmdb_type, t.tmdb_id) : t \in Range(chunk)}
       IN  \E streams \in [DOMAIN chunk -> FetchStreams],
              answers \in {a \in [DOMAIN chunk -> bodies] :
                             \A k \in DOMAIN chunk :
                                a[k] \in DetailAnswers(chunk[k].tmdb_type,
                                                       chunk[k].tmdb_id)} :
             LET response == [k \in DOMAIN chunk |-> Fetch(streams[k], answers[k])]
                 outcomes == [k \in DOMAIN chunk |->
                                IF response[k].raised THEN "raised"
                                ELSE IF IsNone(response[k].value) THEN "missing"
                                ELSE "fetched"]
                 chunk_results == {reconcile(Get(response[k].value), chunk[k]) :
                                     k \in {j \in DOMAIN chunk : outcomes[j] = "fetched"}}
                 missing == Cardinality({k \in DOMAIN chunk : outcomes[k] = "missing"})
                 fetched == Cardinality(DOMAIN chunk) - missing
                 \* the titles up to the first request that raised
                 attempted == SubSeq(chunk, 1,
                                 CHOOSE k \in DOMAIN chunk :
                                    /\ outcomes[k] = "raised"
                                    /\ \A j \in 1..(k - 1) : outcomes[j] # "raised")
             IN  IF \E k \in DOMAIN chunk : outcomes[k] = "raised"
                 THEN /\ pc' = "crashed"
                      /\ loop' = [loop EXCEPT !.outcomes = outcomes,
                                              !.chunks = Append(@, attempted)]
                      /\ UNCHANGED <<title_details, title_genres, title_countries>>
                 ELSE IF ~has_columns(chunk_results)
                 THEN \* chunk_results[[...]] raises KeyError
                      /\ pc' = "crashed"
                      /\ loop' = [loop EXCEPT !.outcomes = outcomes,
                                              !.missing = @ + missing,
                                              !.chunks = Append(@, chunk)]
                      /\ UNCHANGED <<title_details, title_genres, title_countries>>
                 ELSE IF \E r \in chunk_results : IsNone(r.genres)
                 THEN \* iterating None raises TypeError, after the details were written
                      /\ pc' = "crashed"
                      /\ loop' = [loop EXCEPT !.outcomes = outcomes,
                                              !.missing = @ + missing,
                                              !.chunk_results = chunk_results,
                                              !.chunks = Append(@, chunk),
                                              !.fetched = @ + fetched]
                      /\ title_details' = title_details
                                            \cup {DetailRow(r) : r \in chunk_results}
                      /\ UNCHANGED <<title_genres, title_countries>>
                 ELSE /\ title_details' = title_details
                                            \cup {DetailRow(r) : r \in chunk_results}
                      /\ title_genres' = title_genres
                                            \cup UNION {GenreRelations(r) : r \in chunk_results}
                      /\ title_countries' = title_countries
                                            \cup UNION {CountryRelations(r) : r \in chunk_results}
                      /\ loop' = [loop EXCEPT !.outcomes = outcomes,
                                              !.missing = @ + missing,
                                              !.chunk_results = chunk_results,
                                              !.chunks = Append(@, chunk),
                                              !.fetched = @ + fetched,
                                              !.i = @ + 1]
                      /\ pc' = "details_while"
    /\ UNCHANGED <<call, ret, upstream, today, runs, args, analytics, lookupVars, platforms,
                   catalogs, log, hist>>

DetailsEnd ==
    /\ pc = "details_while"
    /\ ~chunk_guard(loop.i, loop.chunk_size, loop.titles)
    /\ pc' = "update_analytics"
    /\ loop' = NoLoop
    /\ UNCHANGED <<call, ret, upstream, today, runs, args, tableVars, log, hist>>

----------------------------------------------------------------------------
(* Snapshot merge and cleanup *)

\* The right side of an inner JOIN: the matching rows only.
InnerJoin(matching) == {Some(m) : m \in matching}

\* The right side of a LEFT JOIN: the matching rows, or one NULL row.
LeftJoin(matching) == IF matching = {} THEN {None} ELSE {Some(m) : m \in matching}

\* A column of a row that may be NULL.
Col(row, column) == IF IsNone(row) THEN None ELSE Some(Get(row)[column])
\* The same, for a column whose value may itself be NULL.
NullableCol(row, column) == IF IsNone(row) THEN None ELSE Get(row)[column]

JoinPlatform(ca) == LeftJoin({p \in platforms : p.platform_id = ca.platform_id})
JoinDetails(ca) == LeftJoin({d \in title_details : d.title_id = ca.title_id})
JoinTitleGenres(ca) == LeftJoin({tg \in title_genres : tg.title_id = ca.title_id})
JoinGenre(tg) ==
    IF IsNone(tg) THEN {None}
    ELSE LeftJoin({g \in genres : /\ g.tmdb_name = Get(tg).genre
                                  /\ g.tmdb_type = Get(tg).tmdb_type})
JoinTitleCountries(d) ==
    IF IsNone(d) THEN {None}
    ELSE LeftJoin({tc \in title_countries : tc.title_id = Get(d).title_id})
JoinCountry(tc) ==
    IF IsNone(tc) THEN {None}
    ELSE LeftJoin({co \in countries : co.country_code = Get(tc).country_code})
JoinLanguage(d) ==
    IF IsNone(NullableCol(d, "original_language")) THEN {None}
    ELSE LeftJoin({l \in languages :
                     l.language_code = Get(NullableCol(d, "original_language"))})

\* One row of the SELECT.  `via` names the staging rows the row was joined
\* from (history): two rows that differ only there are two rows of the fact
\* table.
Via(ca, p, d, tg, tc) ==
    [catalog |-> [platform_id |-> ca.platform_id, run |-> ca.run],
     platform |-> Col(p, "run"),
     details |-> Col(d, "run"),
     genre |-> IF IsNone(tg) THEN None
               ELSE Some([genre |-> Get(tg).genre, run |-> Get(tg).run]),
     country_code |-> IF IsNone(tc) THEN None
                      ELSE Some([country_code |-> Get(tc).country_code,
                                 run |-> Get(tc).run])]

FactRow(ca, p, d, tg, g, tc, co, l) ==
    [date |-> today,
     platform |-> Col(p, "name"),
     media_type |-> ca.tmdb_type,
     tmdb_id |-> ca.tmdb_id,
     title_id |-> ca.title_id,
     release_year |-> IF IsNone(NullableCol(d, "release_date")) THEN None
                      ELSE Some(Get(NullableCol(d, "release_date")).year),
     vote_count |-> NullableCol(d, "vote_count"),
     vote_average |-> NullableCol(d, "vote_average"),
     popularity |-> NullableCol(d, "popularity"),
     genre |-> Col(g, "unified_name"),
     country |-> Col(co, "english_name"),
     language |-> Col(l, "english_name"),
     via |-> Via(ca, p, d, tg, tc)]

SelectRows ==
    UNION { UNION { UNION { UNION { UNION { UNION { UNION {
        {FactRow(ca, p, d, tg, g, tc, co, l) : l \in JoinLanguage(d)}
        : co \in JoinCountry(tc)} : tc \in JoinTitleCountries(d)}
        : g \in JoinGenre(tg)} : tg \in JoinTitleGenres(ca)}
        : d \in JoinDetails(ca)} : p \in JoinPlatform(ca)} : ca \in catalogs}

\* The columns of analytics a row of the SELECT can break: platform is NOT
\* NULL, language is VARCHAR(20) while languages.english_name is VARCHAR(25).
LanguageWidth == 20

Insertable(row) ==
    /\ ~IsNone(row.platform)
    /\ IsNone(row.language) \/ Len(Get(row.language)) <= LanguageWidth

\* The merge as a loop of single-row inserts, each committed: the rows that
\* fit are written although another row fails.
update_analytics_row_by_row ==
    /\ pc = "update_analytics"
    /\ analytics' = analytics \cup {row \in SelectRows : Insertable(row)}
    /\ pc' = IF \E row \in SelectRows : ~Insertable(row)
             THEN "crashed" ELSE "drop_temporary_tables"
    /\ UNCHANGED <<call, ret, upstream, today, runs, args, lookupVars, stagingVars, loop, log, hist>>

\* The merge as one INSERT for each catalog row, each committed.
update_analytics_title_by_title ==
    /\ pc = "update_analytics"
    /\ \E ca \in catalogs :
          LET rows == {row \in SelectRows :
                         /\ row.title_id = ca.title_id
                         /\ row.via.catalog = [platform_id |-> ca.platform_id,
                                               run |-> ca.run]}
          IN  /\ ~(rows \subseteq analytics)
              /\ analytics' = analytics \cup rows
              /\ pc' = IF SelectRows \subseteq analytics'
                       THEN "drop_temporary_tables" ELSE "update_analytics"
    /\ UNCHANGED <<call, ret, upstream, today, runs, args, lookupVars, stagingVars, loop, log, hist>>

\* INSERT INTO analytics ... SELECT ... and the commit: one statement, which
\* inserts every row of the SELECT or, when a row breaks a column, none.
update_analytics_table ==
    /\ pc = "update_analytics"
    /\ IF \E row \in SelectRows : ~Insertable(row)
       THEN /\ pc' = "crashed"
            /\ UNCHANGED analytics
       ELSE /\ analytics' = analytics \cup SelectRows
            /\ pc' = "drop_temporary_tables"
    /\ UNCHANGED <<call, ret, upstream, today, runs, args, lookupVars, stagingVars, loop, log, hist>>

\* The cleanup with title_genres left out of the list of tables.
drop_all_but_title_genres ==
    /\ pc = "drop_temporary_tables"
    /\ platforms' = {} /\ catalogs' = {} /\ title_details' = {}
    /\ title_countries' = {}
    /\ pc' = "done"
    /\ UNCHANGED <<call, ret, upstream, today, runs, args, analytics, lookupVars,
                   title_genres, loop, log, hist>>

\* DROP TABLE of the five staging tables.
drop_temporary_tables ==
    /\ pc = "drop_temporary_tables"
    /\ platforms' = {} /\ catalogs' = {} /\ title_details' = {}
    /\ title_countries' = {} /\ title_genres' = {}
    /\ pc' = "done"
    /\ UNCHANGED <<call, ret, upstream, today, runs, args, analytics, lookupVars, loop, log, hist>>

----------------------------------------------------------------------------
(* Spec: the runs of a scheduled job, one after the other, on a fresh
   deployment *)

\* The command line of the scheduled job.
ScheduledArgs == [source_type |-> "sub", source_region |-> "US"]

Init ==
    /\ call = None
    /\ ret = Pending
    /\ upstream = "honest"
    /\ pc = "idle" /\ today = 0 /\ runs = 0 /\ args = ScheduledArgs
    /\ loop = NoLoop /\ log = NoLog /\ hist = NoHist
    /\ FreshTables

Next ==
    \/ StartRun
    \/ create_tables
    \/ CheckRefresh
    \/ pull_genres_table
    \/ pull_countries_table
    \/ pull_languages_table
    \/ pull_watchmode_sources
    \/ CatalogsRead
    \/ CatalogNextRow
    \/ CatalogPage
    \/ CatalogSave
    \/ DetailsRead
    \/ DetailsChunk
    \/ DetailsEnd
    \/ update_analytics_table
    \/ drop_temporary_tables

Spec == Init /\ [][Next]_vars

----------------------------------------------------------------------------
(* SpecRun: one run of main() on a fresh deployment, against a catalog API
   that may report any page and total_pages.  The process runs each statement
   to its end, so a step that can be taken is taken. *)

InitRun ==
    /\ call = None
    /\ ret = Pending
    /\ upstream = "any"
    /\ pc = "idle" /\ today = 0 /\ runs = 0 /\ args = NoArgs
    /\ loop = NoLoop /\ log = NoLog /\ hist = NoHist
    /\ FreshTables

FirstRun == runs = 0 /\ StartRun

NextRun ==
    \/ FirstRun
    \/ create_tables
    \/ CheckRefresh
    \/ pull_genres_table
    \/ pull_countries_table
    \/ pull_languages_table
    \/ pull_watchmode_sources
    \/ CatalogsRead
    \/ CatalogNextRow
    \/ CatalogPage
    \/ CatalogSave
    \/ DetailsRead
    \/ DetailsChunk
    \/ DetailsEnd
    \/ update_analytics_table
    \/ drop_temporary_tables

SpecRun == InitRun /\ [][NextRun]_vars /\ WF_vars(NextRun)

----------------------------------------------------------------------------
(* Properties of a run *)

InPages == loop.at = "pages"
InChunks == loop.at = "chunks"

\* The page of every request but a platform's first is within the total_pages
\* that the response before it reported.
C3_PageWithinReported ==
    (InPages /\ ~IsNone(loop.request) /\ ~IsNone(Get(loop.request).reported))
        => Get(loop.request).page <= Get(Get(loop.request).reported)

C4_MissingTitleSkipped ==
    InChunks =>
        LET fetched == {loop.titles[k].title_id :
                          k \in {j \in DOMAIN loop.outcomes : loop.outcomes[j] = "fetched"}}
            missing == {k \in DOMAIN loop.outcomes : loop.outcomes[k] = "missing"}
        IN  /\ (pc = "crashed" /\ \A r \in loop.chunk_results : ~IsNone(r.genres))
                  => \E k \in DOMAIN loop.outcomes : loop.outcomes[k] = "raised"
            /\ (pc = "details_while" /\ loop.i > 0) =>
                  /\ {d.title_id : d \in title_details} = fetched
                  /\ loop.missing = Cardinality(missing)

\* C5: a catalog page whose fetch returned None is skipped: the run does not
\* end there.
C5_MissingPageSkipped ==
    ~(pc = "crashed" /\ InPages /\ loop.outcome = "missing")

\* C7: after platform discovery the platforms table holds exactly the rows of
\* this run's discovery, whatever it held before.
C7_DiscoveryReplaces ==
    pc = "pull_catalogs" => platforms = Get(log.discovered)

\* C8: discovery asks the sources endpoint for the type and region the run
\* was started with, and the platforms it stages are sources of that type and
\* region.
C8_DiscoveryUsesArgs ==
    /\ ~IsNone(log.sources) =>
          Get(log.sources) = [types |-> args.source_type, regions |-> args.source_region]
    /\ ~IsNone(log.discovered) =>
          \A p \in Get(log.discovered) :
             \E src \in SourcesMatching(args.source_type, args.source_region) :
                src.id = p.platform_id

Lookup(name) ==
    CASE name = "genres" -> genres
      [] name = "countries" -> countries
      [] name = "languages" -> languages

Endpoints(name) ==
    CASE name = "genres" -> {"genre/movie/list", "genre/tv/list"}
      [] name = "countries" -> {"configuration/countries"}
      [] name = "languages" -> {"configuration/languages"}

LookupNames == {"genres", "countries", "languages"}

----------------------------------------------------------------------------
(* Properties of the detail pull *)

\* The elements of a multi-valued field: none when the field is absent.
Elements(field) ==
    IF IsNone(field) THEN {} ELSE {Get(e) : e \in Range(Get(field)) \ {None}}

\* The relation rows of a table, without the id column.
GenrePairs(rows) == {[title_id |-> tg.title_id, genre |-> tg.genre] : tg \in rows}
CountryPairs(rows) ==
    {[title_id |-> tc.title_id, country_code |-> tc.country_code] : tc \in rows}

\* C11: a chunk whose fetches gave detail records goes on, and after it the
\* relation tables hold one row for each element of the genres and of the
\* origin_country of each record, and no row for a record whose field is
\* absent or empty.
C11_RelationsExploded ==
    (/\ InChunks /\ loop.chunk_results # {}
     /\ \A k \in DOMAIN loop.outcomes : loop.outcomes[k] # "raised")
        => /\ pc # "crashed"
           /\ GenrePairs(title_genres) =
                 UNION {{[title_id |-> r.title_id, genre |-> Get(g.name)] :
                           g \in Elements(r.genres)} : r \in loop.chunk_results}
           /\ CountryPairs(title_countries) =
                 UNION {{[title_id |-> r.title_id, country_code |-> c] :
                           c \in Elements(r.origin_country)} : r \in loop.chunk_results}

----------------------------------------------------------------------------
(* Properties of the snapshot merge *)

\* The fact rows of the snapshot of today that were joined from a catalog row.
FactsOf(ca, facts) ==
    {f \in facts :
        /\ f.date = today
        /\ f.title_id = ca.title_id /\ f.tmdb_id = ca.tmdb_id /\ f.media_type = ca.tmdb_type
        /\ f.via.catalog = [platform_id |-> ca.platform_id, run |-> ca.run]}

\* C12: after a merge, every catalog row staged has at least one fact row of
\* the snapshot date, whether or not its details, genre, country and language
\* were found.
C12_NoTitleDropped ==
    pc = "drop_temporary_tables" => \A ca \in catalogs : FactsOf(ca, analytics) # {}

\* A merge of a title without details and of a title whose genre, country and
\* language are all missing or unknown to the lookup tables.
C12_Witness ==
    /\ pc = "drop_temporary_tables"
    /\ \E ca \in catalogs :
          \A f \in FactsOf(ca, analytics) : IsNone(f.via.details) /\ IsNone(f.vote_count)
    /\ \E ca \in catalogs :
          \E f \in FactsOf(ca, analytics) :
             /\ ~IsNone(f.via.details)
             /\ IsNone(f.genre) /\ IsNone(f.country) /\ IsNone(f.language)

Max(a, b) == IF a < b THEN b ELSE a

\* The relation rows of a title at merge time.
GenreCount(ca) == Cardinality({tg \in title_genres : tg.title_id = ca.title_id})
CountryCount(ca) == Cardinality({tc \in title_countries : tc.title_id = ca.title_id})

\* C13: a merge appends, for each catalog row whose title has g genre relations
\* and c country relations, exactly max(1,g) * max(1,c) fact rows (6 rows for
\* 3 genres and 2 countries).
C13_FanOut ==
    [][(pc = "update_analytics" /\ pc' = "drop_temporary_tables")
          => \A ca \in catalogs :
                Cardinality(FactsOf(ca, analytics' \ analytics))
                    = Max(1, GenreCount(ca)) * Max(1, CountryCount(ca))]_vars

----------------------------------------------------------------------------
(* Properties of the tables across runs *)

Dates(facts) == {f.date : f \in facts}

\* C14: no step of any run removes or changes a row of the fact table, and
\* the rows a step adds are of a date the table had no row of.
C14_AppendOnly ==
    [][/\ analytics \subseteq analytics'
       /\ Dates(analytics' \ analytics) \cap Dates(analytics) = {}]_vars

\* The second merge: the snapshot of the first run is in the table, next to
\* that of a later date.
C14_Witness ==
    /\ runs = 2
    /\ pc = "drop_temporary_tables"
    /\ Cardinality(Dates(analytics)) = 2

StagingEmpty ==
    /\ platforms = {} /\ catalogs = {} /\ title_details = {}
    /\ title_countries = {} /\ title_genres = {}

\* C15: the cleanup that follows a merge empties the five staging tables and
\* leaves the fact and lookup tables as they are, and the run started after a
\* completed run finds the staging tables empty once its tables are created.
C15_StagingCleared ==
    [][/\ pc' = "done" =>
            /\ StagingEmpty'
            /\ analytics' = analytics
            /\ genres' = genres /\ countries' = countries /\ languages' = languages
       /\ pc = "done" => (pc' = "create_tables" /\ StagingEmpty')
       /\ pc = "create_tables" => UNCHANGED tableVars]_vars

\* The run after a completed run, at its refresh gate.
C15_Witness ==
    /\ runs = 2
    /\ pc = "check_refresh"
    /\ analytics # {} /\ genres # {}
    /\ StagingEmpty

\* The runs that inserted the staging rows a fact row was joined from.
StagedBy(f) ==
    {f.via.catalog.run}
    \cup (IF IsNone(f.via.platform) THEN {} ELSE {Get(f.via.platform)})
    \cup (IF IsNone(f.via.details) THEN {} ELSE {Get(f.via.details)})
    \cup (IF IsNone(f.via.genre) THEN {} ELSE {Get(f.via.genre).run})
    \cup (IF IsNone(f.via.country_code) THEN {} ELSE {Get(f.via.country_code).run})

\* C16: the fact rows a run appends are joined only from platform, catalog,
\* detail and relation rows that the same run staged.
C16_MergeOwnStaging ==
    [][\A f \in analytics' \ analytics : StagedBy(f) = {runs}]_vars

\* The fact rows of the snapshot of today.
Snapshot(facts) == {f \in facts : f.date = today}

\* C17: the merge step either fails, and then the fact table has no row of
\* the current date, or completes, and then it has every row of the SELECT;
\* at no other step does a row of the current date appear.
C17_MergeAtomic ==
    [][/\ pc = "update_analytics" =>
            \/ pc' = "crashed" /\ Snapshot(analytics') = {}
            \/ /\ pc' = "drop_temporary_tables"
               /\ Snapshot(analytics') = SelectRows
               /\ \A ca \in catalogs : FactsOf(ca, analytics') # {}
       /\ pc # "update_analytics" => Snapshot(analytics') = Snapshot(analytics)]_vars

\* A merge that failed on a row (a language name wider than the column)
\* while other rows of the SELECT could have been inserted.
C17_Witness ==
    /\ pc = "crashed"
    /\ loop = NoLoop
    /\ \E row \in SelectRows : ~Insertable(row)
    /\ \E row \in SelectRows : Insertable(row)
    /\ Snapshot(analytics) = {}

----------------------------------------------------------------------------
(* The filter evaluators of DataConnector *)

\* The declared bounds of the two range sliders.
RatingLow == 0
RatingHigh == 10
YearLow == 1902
YearHigh == 2024

\* str.lower() on the labels of the media type checklist.
lower(label) ==
    CASE label = "Movie" -> "movie"
      [] label = "TV" -> "tv"
      [] OTHER -> label

\* A comparison of a nullable column with a number: not true on NULL (SQL) or
\* NaN (pandas).  Ratings are rationals, years integers.
RatingWithin(vote_average, range) ==
    /\ ~IsNone(vote_average)
    /\ range[1] * Get(vote_average).den <= Get(vote_average).num
    /\ Get(vote_average).num <= range[2] * Get(vote_average).den

YearWithin(release_year, range) ==
    /\ ~IsNone(release_year)
    /\ range[1] <= Get(release_year)
    /\ Get(release_year) <= range[2]

\* column = 'v', column IN ('v', 'w') and Series.isin: not true on NULL / NaN.
IsIn(column, values) == ~IsNone(column) /\ Get(column) \in Range(values)

\* The clauses _construct_filtered_subquery appends to the WHERE of its query,
\* on a row of the fact table.  The sub-selects of the genre and country
\* clauses read the whole table.
where_clauses(filters, row, table) ==
    /\ Len(filters.media_type) = 1 => row.media_type = lower(filters.media_type[1])
    /\ Len(filters.platform) # 0 => IsIn(row.platform, filters.platform)
    /\ (/\ ~IsNone(filters.rating)
        /\ Get(filters.rating) # <<RatingLow, RatingHigh>>
        /\ Len(Get(filters.rating)) > 0)
           => RatingWithin(row.vote_average, Get(filters.rating))
    /\ (/\ ~IsNone(filters.release_year)
        /\ Get(filters.release_year) # <<YearLow, YearHigh>>
        /\ Len(Get(filters.release_year)) > 0)
           => YearWithin(row.release_year, Get(filters.release_year))
    /\ Len(filters.genre) > 0 =>
           row.title_id \in {r.title_id : r \in {t \in table : IsIn(t.genre, filters.genre)}}
    /\ Len(filters.country) > 0 =>
           row.title_id \in {r.title_id : r \in {t \in table : IsIn(t.country, filters.country)}}
    /\ Len(filters.language) # 0 => IsIn(row.language, filters.language)

\* The rows selected by the query text of _construct_filtered_subquery
\* (two_dates = False), run against the fact table.
construct_filtered_subquery(filters, table) ==
    {row \in table :
        /\ Some(row.date) = MaxDate(table)
        /\ where_clauses(filters, row, table)}

\* SELECT DISTINCT date FROM analytics ORDER BY date desc LIMIT 2
LastTwoDates(table) ==
    LET dates == {row.date : row \in table}
    IN  {d \in dates : Cardinality({e \in dates : e > d}) < 2}

\* The rows selected by the query text with two_dates = True.
construct_filtered_subquery_two_dates(filters, table) ==
    {row \in table :
        /\ row.date \in LastTwoDates(table)
        /\ where_clauses(filters, row, table)}

\* A mask that keeps no row, in place of pd.Series(True, ...).
series_false == FALSE

\* pd.Series(True, index=self.demo_data.index): the mask of a dimension that
\* has no constraint.
series_true == TRUE

\* The rows of demo_data kept by the boolean mask of _filter_demo_data.
filter_demo_data(filters, demo_data) ==
    {row \in demo_data :
        LET media_filter ==
                IF Len(filters.media_type) = 1
                THEN row.media_type = lower(filters.media_type[1])
                ELSE series_true
            platform_filter ==
                IF Len(filters.platform) # 0
                THEN IsIn(row.platform, filters.platform)
                ELSE series_true
            rating_filter ==
                IF ~IsNone(filters.rating) /\ Len(Get(filters.rating)) > 0
                THEN RatingWithin(row.vote_average, Get(filters.rating))
                ELSE series_true
            year_filter ==
                IF /\ ~IsNone(filters.release_year)
                   /\ Len(Get(filters.release_year)) > 0
                   /\ Get(filters.release_year) # <<YearLow, YearHigh>>
                THEN YearWithin(row.release_year, Get(filters.release_year))
                ELSE series_true
            genre_filter ==
                IF Len(filters.genre) # 0
                THEN IsIn(row.genre, filters.genre)
                ELSE series_true
            country_filter ==
                IF Len(filters.country) # 0
                THEN IsIn(row.country, filters.country)
                ELSE series_true
            language_filter ==
                IF Len(filters.language) # 0
                THEN IsIn(row.language, filters.language)
                ELSE series_true
        IN  /\ media_filter /\ platform_filter /\ rating_filter /\ year_filter
            /\ genre_filter /\ country_filter /\ language_filter}

----------------------------------------------------------------------------
(* SpecFilter: the two evaluators on every filter selection and snapshot *)

\* Fact rows of one snapshot: a movie with two genres, a series whose genre
\* and country are unknown, and a series whose details are missing.
FilterFact(id, platform, media_type, title_id, vote_average, release_year, dims) ==
    [id |-> id, date |-> 0, platform |-> Some(platform), media_type |-> media_type,
     tmdb_id |-> title_id - 90, title_id |-> title_id,
     release_year |-> release_year, vote_count |-> None, vote_average |-> vote_average,
     popularity |-> None, genre |-> dims[1], country |-> dims[2], language |-> dims[3]]

FilterFacts ==
    {FilterFact(1, "Netflix", "movie", 101, Some(Rat(81, 10)), Some(1979),
                <<Some("Action & Adventure"), Some("United States of America"),
                  Some("English")>>),
     FilterFact(2, "Netflix", "movie", 101, Some(Rat(81, 10)), Some(1979),
                <<Some("Drama"), Some("United States of America"), Some("English")>>),
     FilterFact(3, "Hulu", "tv", 102, Some(Rat(79, 10)), Some(2004), <<None, None, None>>),
     FilterFact(4, "Hulu", "tv", 103, None, None, <<None, None, None>>)}

\* The values of the dcc.Store of the dashboard.
FilterStates ==
    [media_type : {<<>>, <<"Movie">>, <<"Movie", "TV">>},
     platform : {<<>>, <<"Netflix">>, <<"Netflix", "Hulu">>},
     rating : {None, Some(<<>>), Some(<<RatingLow, RatingHigh>>), Some(<<8, 9>>)},
     release_year : {None, Some(<<YearLow, YearHigh>>), Some(<<1970, 1990>>)},
     genre : {<<>>, <<"Drama">>, <<"Drama", "Kids (tv)">>},
     country : {<<>>, <<"United States of America">>},
     language : {<<>>, <<"English">>}]

InitFilter ==
    /\ call \in [filters : FilterStates]
    /\ ret = Pending
    /\ upstream = "honest"
    /\ pc = "idle" /\ today = 0 /\ runs = 0 /\ args = NoArgs
    /\ loop = NoLoop /\ log = NoLog /\ hist = NoHist
    /\ analytics \in SUBSET FilterFacts
    /\ genres = {} /\ countries = {} /\ languages = {}
    /\ platforms = {} /\ catalogs = {} /\ title_details = {}
    /\ title_genres = {} /\ title_countries = {}

\* The same selection evaluated on the parquet copy of the snapshot (demo)
\* and by the query on the fact table.
FilterCall ==
    /\ ret = Pending
    /\ ret' = Some([memory |-> filter_demo_data(call.filters, analytics),
                    query |-> construct_filtered_subquery(call.filters, analytics)])
    /\ UNCHANGED <<call, upstream, runVars>>

NextFilter == FilterCall

SpecFilter == InitFilter /\ [][NextFilter]_vars

\* C18: on every filter selection and every snapshot, the in-memory evaluator
\* and the compiled query select the same fact rows.
C18_EvaluatorsAgree ==
    ret # Pending => Get(ret).memory = Get(ret).query

Dimensions ==
    {"media_type", "platform", "rating", "release_year", "genre", "country", "language"}

\* The no-constraint values of a dimension: no or both media types, an empty
\* set, a range that is null, empty (the store before the first selection) or
\* the declared bounds.
NoConstraint(dimension, value) ==
    CASE dimension = "media_type" -> Len(value) \in {0, 2}
      [] dimension = "rating" ->
            value \in {None, Some(<<>>), Some(<<RatingLow, RatingHigh>>)}
      [] dimension = "release_year" ->
            value \in {None, Some(<<>>), Some(<<YearLow, YearHigh>>)}
      [] OTHER -> value = <<>>

\* C19: a selection with every dimension at its no-constraint value selects
\* every row of the snapshot, rows with a null column included, in both
\* evaluators.
C19_FilterNoOp ==
    (ret # Pending /\ \A d \in Dimensions : NoConstraint(d, call.filters[d]))
        => /\ Get(ret).memory = analytics
           /\ Get(ret).query = analytics

\* The selections got from `filters` by constraining one dimension that had
\* no constraint.
Constrained(filters) ==
    {f \in FilterStates :
        \E d \in Dimensions :
           /\ NoConstraint(d, filters[d]) /\ ~NoConstraint(d, f[d])
           /\ \A e \in Dimensions \ {d} : f[e] = filters[e]}

\* C20: constraining one more dimension never adds a row, in either
\* evaluator.
C20_FilterMonotone ==
    ret # Pending =>
        \A f \in Constrained(call.filters) :
           /\ filter_demo_data(f, analytics) \subseteq Get(ret).memory
           /\ construct_filtered_subquery(f, analytics) \subseteq Get(ret).query

\* A selection that already constrains the platform, and a further constraint
\* that removes rows from what both evaluators select.
C20_Witness ==
    /\ ret # Pending
    /\ ~NoConstraint("platform", call.filters.platform)
    /\ \E f \in Constrained(call.filters) :
          /\ filter_demo_data(f, analytics) # Get(ret).memory
          /\ construct_filtered_subquery(f, analytics) # Get(ret).query
          /\ filter_demo_data(f, analytics) # {}
          /\ construct_filtered_subquery(f, analytics) # {}

----------------------------------------------------------------------------
(* The aggregates of DataConnector *)

\* The default of the parameter n of the top-N operations, and the literal of
\* head(3) in their in-memory branch.
TopN == 3
DemoHead == 3

\* COUNT(*): the fact rows, not the titles.
count_rows(rows) == Cardinality(rows)

\* COUNT(DISTINCT title_id) and Series.nunique() of title_id.
count_distinct_titles(rows) == Cardinality({row.title_id : row \in rows})

\* Series.nunique() of tmdb_id.
nunique_tmdb_id(rows) == Cardinality({row.tmdb_id : row \in rows})

OfType(rows, media_type) == {row \in rows : row.media_type = media_type}
OnPlatform(rows, platform) == {row \in rows : row.platform = platform}
WithGenre(rows, genre) == {row \in rows : row.genre = genre}
PlatformsOf(rows) == {row.platform : row \in rows}

\* The groups of GROUP BY platform, genre: the rows of a NULL genre are a group.
GenreGroups(rows) == {[platform |-> row.platform, genre |-> row.genre] : row \in rows}

\* The groups of groupby(["platform", "genre"]): pandas drops the NaN keys.
GenreGroupsDemo(rows) == {g \in GenreGroups(rows) : ~IsNone(g.genre)}

\* get_movie_count and get_tv_count, on the rows either evaluator selected.
get_movie_count(filtered) == count_distinct_titles(OfType(filtered, "movie"))
get_tv_count(filtered) == count_distinct_titles(OfType(filtered, "tv"))

\* get_title_count_data, the query.
get_title_count_data(filtered) ==
    {[platform |-> p,
      movies |-> Some(count_distinct_titles(OfType(OnPlatform(filtered, p), "movie"))),
      tv |-> Some(count_distinct_titles(OfType(OnPlatform(filtered, p), "tv"))),
      total |-> Some(count_distinct_titles(OnPlatform(filtered, p)))] :
        p \in PlatformsOf(filtered)}

\* get_title_count_data in memory: the count of the deduplicated (platform,
\* title_id, media_type) rows, pivoted; a platform without a title of a type
\* has NaN there, and the frame has no total column.
get_title_count_data_demo(filtered) ==
    LET titles == {[platform |-> row.platform, title_id |-> row.title_id,
                    media_type |-> row.media_type] : row \in filtered}
        count(p, m) == Cardinality({t \in titles : t.platform = p /\ t.media_type = m})
        cell(p, m) == IF count(p, m) = 0 THEN None ELSE Some(count(p, m))
    IN  {[platform |-> p, movies |-> cell(p, "movie"), tv |-> cell(p, "tv"),
          total |-> None] : p \in PlatformsOf(filtered)}

\* The results a ranking by title_count DESC may keep of each platform's
\* groups: n of them (all, when there are fewer), none kept below one left
\* out.  Groups of equal count come in any order.
TopChoices(counts, n) ==
    {kept \in SUBSET counts :
        \A p \in {c.platform : c \in counts} :
           LET mine == {c \in counts : c.platform = p}
               top == {c \in kept : c.platform = p}
           IN  /\ Cardinality(top) = Min(n, Cardinality(mine))
               /\ \A a \in top, b \in mine \ top : a.title_count >= b.title_count}

\* get_top_genre_data, the query.
get_top_genre_data(filtered, n) ==
    TopChoices({[platform |-> g.platform, genre |-> g.genre,
                 title_count |->
                    count_distinct_titles(WithGenre(OnPlatform(filtered, g.platform),
                                                    g.genre))] :
                   g \in GenreGroups(filtered)}, n)

\* get_top_genre_data in memory: head(3) whatever n is.
get_top_genre_data_demo(filtered, n) ==
    TopChoices({[platform |-> g.platform, genre |-> g.genre,
                 title_count |->
                    count_distinct_titles(WithGenre(OnPlatform(filtered, g.platform),
                                                    g.genre))] :
                   g \in GenreGroupsDemo(filtered)}, DemoHead)

\* ROUND(x, 3) and round(x, 3) of a rational, in thousandths.
Round3(r) == (2 * 1000 * r.num + r.den) \div (2 * r.den)

RatLeq(a, b) == a.num * b.den <= b.num * a.den
MaxRat(ratios) == CHOOSE r \in ratios : \A o \in ratios : RatLeq(o, r)

\* -LN(ratio) in millionths, for the ratios of two counts up to 5.
NegLnMicro(ratio) ==
    CASE ratio = Rat(1, 1) -> 0
      [] ratio = Rat(1, 2) -> 693147
      [] ratio = Rat(1, 3) -> 1098612
      [] ratio = Rat(2, 3) -> 405465
      [] ratio = Rat(1, 4) -> 1386294
      [] ratio = Rat(3, 4) -> 287682
      [] ratio = Rat(1, 5) -> 1609438
      [] ratio = Rat(2, 5) -> 916291
      [] ratio = Rat(3, 5) -> 510826
      [] ratio = Rat(4, 5) -> 223144

\* SUM(ratio * LN(ratio)) * -1 over the rows of a group, in millionths.
RECURSIVE EntropyMicro(_)
EntropyMicro(rows) ==
    IF rows = {} THEN 0
    ELSE LET row == CHOOSE r \in rows : TRUE
         IN  (2 * row.ratio.num * NegLnMicro(row.ratio) + row.ratio.den)
                 \div (2 * row.ratio.den)
             + EntropyMicro(rows \ {row})

RoundMicro(micro) == (micro + 500) \div 1000

\* The aggregation of the rows (platform, genre, ratio) by platform.
DiversityRows(sub) ==
    {[platform |-> p,
      dominance |-> Round3(MaxRat({row.ratio : row \in OnPlatform(sub, p)})),
      richness |-> Cardinality({row.genre : row \in OnPlatform(sub, p)} \ {None}),
      shannon |-> RoundMicro(EntropyMicro(OnPlatform(sub, p)))] :
        p \in PlatformsOf(sub)}

\* get_diversity_data, the query: the groups g LEFT JOIN the platform counts.
get_diversity_data(filtered) ==
    DiversityRows(
        {[platform |-> g.platform, genre |-> g.genre,
          ratio |-> Rat(count_distinct_titles(WithGenre(OnPlatform(filtered, g.platform),
                                                        g.genre)),
                        count_distinct_titles(OnPlatform(filtered, g.platform)))] :
            g \in GenreGroups(filtered)})

\* get_diversity_data in memory: the groups without the NaN genres, counted
\* by tmdb_id.
get_diversity_data_demo(filtered) ==
    DiversityRows(
        {[platform |-> g.platform, genre |-> g.genre,
          ratio |-> Rat(nunique_tmdb_id(WithGenre(OnPlatform(filtered, g.platform),
                                                  g.genre)),
                        nunique_tmdb_id(OnPlatform(filtered, g.platform)))] :
            g \in GenreGroupsDemo(filtered)})

\* A loss reported as it is counted.
unsigned_lost(count) == count

\* -1 * SUM(...)
signed_lost(count) == -1 * count

\* SELECT DISTINCT platform, date, media_type, tmdb_id of the rows of a date.
Triples(rows) ==
    {[platform |-> row.platform, media_type |-> row.media_type,
      tmdb_id |-> row.tmdb_id] : row \in rows}

\* get_change_data, the query.  current has the rows of MAX(date) of
\* last_two_dates, previous those of its second date (none when it has one
\* date only); comparison is their FULL OUTER JOIN on the three columns.
get_change_data(filters, table) ==
    LET last_two_dates == construct_filtered_subquery_two_dates(filters, table)
        dates == {row.date : row \in last_two_dates}
        current == Triples({row \in last_two_dates :
                              Cardinality({d \in dates : d > row.date}) = 0})
        previous == Triples({row \in last_two_dates :
                               Cardinality({d \in dates : d > row.date}) = 1})
        comparison == {[platform |-> t.platform, media_type |-> t.media_type,
                        tmdb_id |-> t.tmdb_id,
                        in_current |-> IF t \in current THEN 1 ELSE 0,
                        in_previous |-> IF t \in previous THEN 1 ELSE 0] :
                          t \in current \cup previous}
        sum(p, m, c, q) == Cardinality({row \in OnPlatform(comparison, p) :
                                          /\ row.media_type = m
                                          /\ row.in_current = c /\ row.in_previous = q})
        gain_loss == {[platform |-> p,
                       movie_gained |-> sum(p, "movie", 1, 0),
                       movie_lost |-> signed_lost(sum(p, "movie", 0, 1)),
                       tv_gained |-> sum(p, "tv", 1, 0),
                       tv_lost |-> signed_lost(sum(p, "tv", 0, 1))] :
                         p \in PlatformsOf(comparison)}
    IN  {[platform |-> r.platform, movie_gained |-> r.movie_gained,
          movie_lost |-> r.movie_lost, tv_gained |-> r.tv_gained, tv_lost |-> r.tv_lost,
          net_change |-> r.movie_gained + r.movie_lost + r.tv_gained + r.tv_lost] :
            r \in gain_loss}

----------------------------------------------------------------------------
(* SpecAnalytics: the aggregates on every fact table of three snapshot dates
   and on a few filter selections *)

\* Titles: four movies of one genre each, a movie of two genres, and a series
\* without a genre whose tmdb_id is also that of a movie (TMDB numbers movies
\* and series apart).
AnalyticsTitle(title_id, tmdb_id, media_type, title_genres_) ==
    [title_id |-> title_id, tmdb_id |-> tmdb_id, media_type |-> media_type,
     genres |-> title_genres_]

Movie1 == AnalyticsTitle(201, 21, "movie", {Some("Comedy")})
Movie2 == AnalyticsTitle(202, 22, "movie", {Some("Comedy")})
Movie3 == AnalyticsTitle(203, 23, "movie", {Some("Drama")})
Movie4 == AnalyticsTitle(204, 24, "movie", {Some("Drama")})
Movie5 == AnalyticsTitle(205, 25, "movie", {Some("Horror (movie)"), Some("Western")})
Series1 == AnalyticsTitle(301, 21, "tv", {None})

Movies == {Movie1, Movie2, Movie3, Movie4, Movie5}

\* The fact rows of a platform's titles on a date: one row for each genre.
FactsOn(date, platform, titles) ==
    UNION {{[FilterFact(<<date, platform, t.title_id, g>>, platform, t.media_type,
                        t.title_id, Some(Rat(7, 1)), Some(2000),
                        <<g, Some("United States of America"), Some("English")>>)
               EXCEPT !.date = date, !.tmdb_id = t.tmdb_id] : g \in t.genres} :
            t \in titles}

\* The days of three refreshes in a row.
SnapshotDates == <<0, DefaultGap, 2 * DefaultGap>>

\* The catalogs of two platforms on the three dates.
Catalogs ==
    [netflix_previous : SUBSET {Movie1, Movie2, Movie3}, netflix_current : SUBSET Movies,
     hulu_old : SUBSET {Series1}, hulu_previous : SUBSET {Series1},
     hulu_current : SUBSET {Movie1, Series1}]

FactTable(c) ==
    FactsOn(SnapshotDates[1], "Hulu", c.hulu_old)
    \cup FactsOn(SnapshotDates[2], "Netflix", c.netflix_previous)
    \cup FactsOn(SnapshotDates[2], "Hulu", c.hulu_previous)
    \cup FactsOn(SnapshotDates[3], "Netflix", c.netflix_current)
    \cup FactsOn(SnapshotDates[3], "Hulu", c.hulu_current)

\* The store after "Clear Filters", and selections of one dimension.
ClearedFilters ==
    [media_type |-> <<"Movie", "TV">>, platform |-> <<>>,
     rating |-> Some(<<RatingLow, RatingHigh>>),
     release_year |-> Some(<<YearLow, YearHigh>>),
     genre |-> <<>>, country |-> <<>>, language |-> <<>>]

AnalyticsFilters ==
    {ClearedFilters,
     [ClearedFilters EXCEPT !.platform = <<"Hulu">>],
     [ClearedFilters EXCEPT !.media_type = <<"Movie">>],
     [ClearedFilters EXCEPT !.genre = <<"Comedy">>]}

\* demo_data.parquet: a copy of one snapshot, the latest.
load_demo_data(table) == {row \in table : Some(row.date) = MaxDate(table)}

InitAnalytics ==
    /\ call \in [filters : AnalyticsFilters]
    /\ ret = Pending
    /\ upstream = "honest"
    /\ pc = "idle" /\ today = SnapshotDates[3] /\ runs = 0 /\ args = NoArgs
    /\ loop = NoLoop /\ log = NoLog /\ hist = NoHist
    /\ analytics \in {FactTable(c) : c \in Catalogs}
    /\ genres = {} /\ countries = {} /\ languages = {}
    /\ platforms = {} /\ catalogs = {} /\ title_details = {}
    /\ title_genres = {} /\ title_countries = {}

\* The operations of the dashboard on one selection: each on the rows its
\* own evaluator selects (query on the fact table, memory on the parquet copy).
AnalyticsCall ==
    /\ ret = Pending
    /\ LET query == construct_filtered_subquery(call.filters, analytics)
           memory == filter_demo_data(call.filters, load_demo_data(analytics))
       IN  \E top \in get_top_genre_data(query, TopN),
              top_demo \in get_top_genre_data_demo(memory, TopN) :
             ret' = Some([query |-> query, memory |-> memory,
                          movie_count |-> [query |-> get_movie_count(query),
                                           memory |-> get_movie_count(memory)],
                          tv_count |-> [query |-> get_tv_count(query),
                                        memory |-> get_tv_count(memory)],
                          title_count |-> [query |-> get_title_count_data(query),
                                           memory |-> get_title_count_data_demo(memory)],
                          top_genre |-> [query |-> top, memory |-> top_demo],
                          diversity |-> [query |-> get_diversity_data(query),
                                         memory |-> get_diversity_data_demo(memory)],
                          change |-> get_change_data(call.filters, analytics)])
    /\ UNCHANGED <<call, upstream, runVars>>

NextAnalytics == AnalyticsCall

SpecAnalytics == InitAnalytics /\ [][NextAnalytics]_vars

\* The distinct titles among fact rows.
TitlesIn(rows) == {row.title_id : row \in rows}

\* C21: the title counts of either evaluator's rows are numbers of distinct
\* titles, not of fact rows: the movie and series counts, the counts per
\* platform, and the count of each genre of a platform; the two rows of a
\* title of two genres count as one title.
C21_TitlesCountedOnce ==
    ret # Pending =>
        \A mode \in {"query", "memory"} :
           LET rows == Get(ret)[mode]
               titles(p, m) == Cardinality(TitlesIn(OfType(OnPlatform(rows, p), m)))
           IN  /\ Get(ret).movie_count[mode] = Cardinality(TitlesIn(OfType(rows, "movie")))
               /\ Get(ret).tv_count[mode] = Cardinality(TitlesIn(OfType(rows, "tv")))
               /\ {r.platform : r \in Get(ret).title_count[mode]} = PlatformsOf(rows)
               /\ \A r \in Get(ret).title_count[mode] :
                     /\ r.movies \in {Some(titles(r.platform, "movie"))}
                                      \cup (IF mode = "memory" /\ titles(r.platform, "movie") = 0
                                            THEN {None} ELSE {})
                     /\ r.tv \in {Some(titles(r.platform, "tv"))}
                                  \cup (IF mode = "memory" /\ titles(r.platform, "tv") = 0
                                        THEN {None} ELSE {})
                     /\ mode = "query" =>
                           r.total = Some(Cardinality(TitlesIn(OnPlatform(rows, r.platform))))
               /\ \A r \in Get(ret).top_genre[mode] :
                     r.title_count =
                        Cardinality(TitlesIn(WithGenre(OnPlatform(rows, r.platform), r.genre)))
               /\ (Cardinality(TitlesIn(rows)) = 1 /\ Cardinality(rows) = 2)
                     => /\ Get(ret).movie_count[mode] + Get(ret).tv_count[mode] = 1
                        /\ Cardinality(Get(ret).top_genre[mode]) = 2
                        /\ \A r \in Get(ret).top_genre[mode] : r.title_count = 1

\* The snapshot is the two rows of the movie of two genres.
C21_Witness ==
    /\ ret # Pending
    /\ call.filters = ClearedFilters
    /\ \A mode \in {"query", "memory"} :
          /\ Cardinality(Get(ret)[mode]) = 2
          /\ TitlesIn(Get(ret)[mode]) = {Movie5.title_id}
          /\ Get(ret).movie_count[mode] = 1
          /\ {r.title_count : r \in Get(ret).top_genre[mode]} = {1}

\* The genres of a platform's rows, and the diversity of a platform by the
\* shares p_i of its distinct titles that carry each genre.
GenresOn(rows, p) == {row.genre : row \in OnPlatform(rows, p)} \ {None}

DiversityOf(rows, p) ==
    LET shares == {[genre |-> g,
                    ratio |-> Rat(Cardinality(TitlesIn(WithGenre(OnPlatform(rows, p), g))),
                                  Cardinality(TitlesIn(OnPlatform(rows, p))))] :
                      g \in GenresOn(rows, p)}
    IN  [platform |-> p,
         dominance |-> Round3(MaxRat({share.ratio : share \in shares})),
         richness |-> Cardinality(shares),
         shannon |-> RoundMicro(EntropyMicro(shares))]

\* C22: for every platform that has a genre, get_diversity_data returns the
\* richness, dominance and Shannon index of the shares p_i of its genres, in
\* both evaluators: a title without a genre is one of the platform's titles
\* and adds no bucket; two titles in one genre and two in another give
\* richness 2, dominance 0.5 and Shannon 0.693.
C22_DiversityIndex ==
    ret # Pending =>
        \A mode \in {"query", "memory"} :
           \A p \in PlatformsOf(Get(ret)[mode]) :
              /\ GenresOn(Get(ret)[mode], p) # {}
                    => DiversityOf(Get(ret)[mode], p) \in Get(ret).diversity[mode]
              /\ TitlesIn(OnPlatform(Get(ret)[mode], p))
                    = {Movie1.title_id, Movie2.title_id, Movie3.title_id, Movie4.title_id}
                    => [platform |-> p, dominance |-> 500, richness |-> 2, shannon |-> 693]
                          \in Get(ret).diversity[mode]

\* C22 for the platforms whose titles all have a genre, in the query.
DiversityQueryWithGenres ==
    ret # Pending =>
        \A p \in PlatformsOf(Get(ret).query) :
           (GenresOn(Get(ret).query, p) # {}
              /\ \A row \in OnPlatform(Get(ret).query, p) : ~IsNone(row.genre))
                => DiversityOf(Get(ret).query, p) \in Get(ret).diversity.query

\* C22 for the platforms whose titles have distinct tmdb_ids, in memory.
DiversityMemoryDistinctIds ==
    ret # Pending =>
        \A p \in PlatformsOf(Get(ret).memory) :
           (GenresOn(Get(ret).memory, p) # {}
              /\ nunique_tmdb_id(OnPlatform(Get(ret).memory, p))
                    = Cardinality(TitlesIn(OnPlatform(Get(ret).memory, p))))
                => DiversityOf(Get(ret).memory, p) \in Get(ret).diversity.memory

\* The two most recent snapshot dates of the fact table, and the rows of a
\* date that the selection keeps.
LaterDate == CHOOSE d \in LastTwoDates(analytics) : \A e \in LastTwoDates(analytics) : e <= d
EarlierDate == CHOOSE d \in LastTwoDates(analytics) : \A e \in LastTwoDates(analytics) : d <= e

SelectedOn(date) ==
    {row \in analytics : row.date = date /\ where_clauses(call.filters, row, analytics)}

\* The titles of a media type a platform has among rows.
TitlesOf(rows, p, media_type) == TitlesIn(OfType(OnPlatform(rows, p), media_type))

\* The change of a platform between two sets of rows.
ChangeOf(p, previous, current) ==
    LET gained(m) == Cardinality(TitlesOf(current, p, m) \ TitlesOf(previous, p, m))
        lost(m) == Cardinality(TitlesOf(previous, p, m) \ TitlesOf(current, p, m))
    IN  [platform |-> p,
         movie_gained |-> gained("movie"), movie_lost |-> 0 - lost("movie"),
         tv_gained |-> gained("tv"), tv_lost |-> 0 - lost("tv"),
         net_change |-> gained("movie") - lost("movie") + gained("tv") - lost("tv")]

\* C23: when the fact table has two snapshot dates and the selection keeps
\* rows of both, get_change_data returns one row for each platform of these
\* rows, with the numbers of movie and series titles gained and lost between
\* the earlier and the later date, the losses never positive, and their sum;
\* {t1,t2,t3} then {t1,t4,t5} gives 2, -2 and 0.
C23_CatalogChange ==
    (/\ ret # Pending
     /\ Cardinality(LastTwoDates(analytics)) = 2
     /\ SelectedOn(LaterDate) # {} /\ SelectedOn(EarlierDate) # {})
        => /\ Get(ret).change =
                 {ChangeOf(p, SelectedOn(EarlierDate), SelectedOn(LaterDate)) :
                    p \in PlatformsOf(SelectedOn(EarlierDate) \cup SelectedOn(LaterDate))}
           /\ \A r \in Get(ret).change : r.movie_lost <= 0 /\ r.tv_lost <= 0
           /\ (/\ TitlesIn(OnPlatform(SelectedOn(EarlierDate), Some("Netflix")))
                    = {Movie1.title_id, Movie2.title_id, Movie3.title_id}
               /\ TitlesIn(OnPlatform(SelectedOn(LaterDate), Some("Netflix")))
                    = {Movie1.title_id, Movie4.title_id, Movie5.title_id})
                 => [platform |-> Some("Netflix"), movie_gained |-> 2, movie_lost |-> -2,
                     tv_gained |-> 0, tv_lost |-> 0, net_change |-> 0] \in Get(ret).change

\* The example of the claim, next to a platform that lost a series and
\* gained a movie of the same tmdb_id.
C23_Witness ==
    /\ ret # Pending
    /\ call.filters = ClearedFilters
    /\ [platform |-> Some("Netflix"), movie_gained |-> 2, movie_lost |-> -2,
        tv_gained |-> 0, tv_lost |-> 0, net_change |-> 0] \in Get(ret).change
    /\ [platform |-> Some("Hulu"), movie_gained |-> 1, movie_lost |-> 0,
        tv_gained |-> 0, tv_lost |-> -1, net_change |-> 0] \in Get(ret).change

\* C24: on every selection, a platform whose selected rows are of one only
\* of the two most recent snapshot dates has a row in the catalog change:
\* with nothing gained and its titles lost when the rows are of the earlier
\* date, with nothing lost and its titles gained when they are of the later.
C24_AbsentSideZero ==
    (ret # Pending /\ Cardinality(LastTwoDates(analytics)) = 2)
        => \A p \in PlatformsOf(SelectedOn(EarlierDate) \cup SelectedOn(LaterDate)) :
              LET earlier == OnPlatform(SelectedOn(EarlierDate), p)
                  later == OnPlatform(SelectedOn(LaterDate), p)
                  count(rows, m) == Cardinality(TitlesOf(rows, p, m))
              IN  /\ later = {} =>
                        \E r \in Get(ret).change :
                           /\ r.platform = p
                           /\ r.movie_gained = 0 /\ r.tv_gained = 0
                           /\ r.movie_lost = 0 - count(earlier, "movie")
                           /\ r.tv_lost = 0 - count(earlier, "tv")
                  /\ earlier = {} =>
                        \E r \in Get(ret).change :
                           /\ r.platform = p
                           /\ r.movie_lost = 0 /\ r.tv_lost = 0
                           /\ r.movie_gained = count(later, "movie")
                           /\ r.tv_gained = count(later, "tv")

----------------------------------------------------------------------------
(* Reads of the dashboard while a run is in progress *)

\* What a query of the dashboard reads with no filter set: the rows of
\* MAX(date).  A statement reads the committed rows, so between two steps of
\* a run it reads the fact table as the state has it.
read_latest_snapshot(table) == construct_filtered_subquery(ClearedFilters, table)

\* C25: a read after any step of a run sees what a read before the step saw,
\* or, after the merge, every row of the new snapshot: the rows of the prior
\* date whole or those of the new date whole, never a part of a date and
\* never rows of two dates.
C25_ReadsSeeWholeSnapshot ==
    [][/\ \/ read_latest_snapshot(analytics') = read_latest_snapshot(analytics)
          \/ /\ pc = "update_analytics"
             /\ read_latest_snapshot(analytics') = SelectRows
       /\ Cardinality(Dates(read_latest_snapshot(analytics'))) <= 1]_vars

\* The second run is about to merge: its staging tables are filled, and a
\* read sees the snapshot of the first run.
C25_Witness ==
    /\ runs = 2
    /\ pc = "update_analytics"
    /\ SelectRows # {}
    /\ read_latest_snapshot(analytics) # {}
    /\ Dates(read_latest_snapshot(analytics)) # {today}

----------------------------------------------------------------------------
(* Properties of a run that the gate declines *)

\* C26: when check_refresh returns false the run ends there, without an
\* error; it has made no upstream request, and from its start to its end no
\* row of the fact table, of a lookup table or of a staging table has
\* changed.
C26_DeclinedRunIsNoOp ==
    /\ [](pc \in {"create_tables", "check_refresh", "skipped"} => log = NoLog)
    /\ [][/\ pc \in {"idle", "done", "skipped", "crashed", "create_tables"}
               => UNCHANGED tableVars
          /\ (pc = "check_refresh"
                /\ ~check_refresh(MaxDate(analytics), today, DefaultGap))
               => (pc' = "skipped" /\ UNCHANGED tableVars /\ log' = NoLog)
          /\ pc' = "skipped" => pc = "check_refresh"]_vars

\* A run declined on the last day of the gap, after a completed refresh.
C26_Witness ==
    /\ pc = "skipped"
    /\ runs = 2
    /\ analytics # {}
    /\ MaxDate(analytics) = Some(today - (RefreshGap - 1))
    /\ log = NoLog

----------------------------------------------------------------------------
(* Properties of the catalog pull *)

\* C27: when the loop of a platform ends with no title, nothing is written
\* to catalogs, the run does not end, and the pull goes on with the platforms
\* that remain, each taken once.
C27_EmptyPlatformSkipped ==
    [][/\ (pc = "catalog_while" /\ ~page_guard(loop.page, loop.total_pages)
             /\ loop.results = {})
            => /\ pc' = "catalog_rows"
               /\ catalogs' = catalogs
               /\ loop'.todo = loop.todo
       /\ (pc = "catalog_rows" /\ loop.todo # {})
            => /\ pc' = "catalog_while"
               /\ loop'.row \in loop.todo
               /\ loop'.todo = loop.todo \ {loop'.row}]_vars

\* The first of two platforms returned no title and was skipped; the second
\* is being pulled and has returned titles.
C27_Witness ==
    /\ pc = "catalog_while"
    /\ InPages
    /\ Cardinality(platforms) = 2
    /\ loop.todo = {}
    /\ catalogs = {}
    /\ loop.results # {}

----------------------------------------------------------------------------
(* Properties of the snapshot dates *)

\* C28: whatever runs have taken place, two distinct snapshot dates of the
\* fact table are at least 15 days apart, and a merge appends rows of today
\* to a table that has no row of today: no date receives two merges.
C28_SnapshotsSpaced ==
    /\ [](\A d1 \in Dates(analytics), d2 \in Dates(analytics) :
             d1 < d2 => d2 - d1 >= RefreshGap)
    /\ [][analytics' # analytics
            => /\ pc = "update_analytics"
               /\ Dates(analytics' \ analytics) = {today}
               /\ today \notin Dates(analytics)]_vars

\* Two completed refreshes, the second on the first day the gate allows.
C28_Witness ==
    /\ pc = "done"
    /\ runs = 2
    /\ Dates(analytics) = {today - RefreshGap, today}

----------------------------------------------------------------------------
(* Properties of the paginator against a steady server *)

\* Every response of the platform's loop so far reported the page asked for
\* and the same total_pages, at least 1.
SteadyServer ==
    /\ InPages /\ loop.steady
    /\ Cardinality(loop.totals) = 1
    /\ \A total \in loop.totals : total >= 1

SteadyTotal == CHOOSE total \in loop.totals : TRUE

Upto(n) == [i \in 1..n |-> i]

LoopOver == pc = "catalog_while" /\ ~page_guard(loop.page, loop.total_pages)

\* C29: against a server that reports the page asked for and a constant
\* total_pages T >= 1, the pages asked for are 1, 2, ... in this order, none
\* beyond T, and when the loop is over they are exactly 1..T (one request for
\* T = 1); the results are the titles of all the responses, and they are what
\* the platform has in catalogs after the save.
C29_SteadyPagination ==
    /\ [](SteadyServer =>
            /\ \E k \in 1..SteadyTotal : loop.asked = Upto(k)
            /\ LoopOver => /\ loop.asked = Upto(SteadyTotal)
                           /\ {answer.page : answer \in loop.seen} = 1..SteadyTotal
            /\ (LoopOver /\ SteadyTotal = 1) => Len(loop.asked) = 1
            /\ loop.results = UNION {answer.titles : answer \in loop.seen})
    /\ [][(SteadyServer /\ LoopOver /\ pc' = "catalog_rows") =>
             {c.title_id : c \in {c \in catalogs' : /\ c.platform_id = loop.row.platform_id
                                                    /\ c.run = runs}}
                = {t.id : t \in UNION {answer.titles : answer \in loop.seen}}]_vars

\* The loop of a platform is over after one request: the only response
\* reported total_pages = 1, and carried titles.
C29_Witness ==
    /\ SteadyServer /\ LoopOver
    /\ SteadyTotal = 1
    /\ loop.asked = <<1>>
    /\ loop.results # {}

----------------------------------------------------------------------------
(* SpecChunks: pull_tmdb_details on every number of staged titles and
   chunk_size *)

\* Title stubs, movies and series in turn.
ChunkStubs ==
    {[id |-> 100 + k, tmdb_id |-> 10 + k,
      tmdb_type |-> IF k % 2 = 1 THEN "movie" ELSE "tv"] : k \in 1..MaxTitles}

\* The catalogs rows of stubs staged for one platform by the run.
StagedRows(stubs) ==
    {[title_id |-> t.id, tmdb_id |-> t.tmdb_id, tmdb_type |-> t.tmdb_type,
      platform_type |-> "sub", platform_region |-> "US", platform_id |-> 1,
      run |-> 1] : t \in stubs}

InitChunks ==
    /\ call \in [chunk_size : 1..MaxChunkSize]
    /\ ret = Pending
    /\ upstream = "honest"
    /\ pc = "pull_details" /\ today = 0 /\ runs = 1 /\ args = ScheduledArgs
    /\ loop = NoLoop /\ log = NoLog /\ hist = NoHist
    /\ analytics = {} /\ genres = {} /\ countries = {} /\ languages = {}
    /\ platforms = {[platform_id |-> 1, name |-> "Netflix", region |-> "US",
                     type |-> "sub", run |-> 1]}
    /\ catalogs \in {StagedRows(stubs) : stubs \in SUBSET ChunkStubs}
    /\ title_details = {} /\ title_genres = {} /\ title_countries = {}

NextChunks ==
    \/ DetailsRead
    \/ DetailsChunk
    \/ DetailsEnd

SpecChunks == InitChunks /\ [][NextChunks]_vars /\ WF_vars(NextChunks)

RECURSIVE Flatten(_)
Flatten(seqs) == IF seqs = <<>> THEN <<>> ELSE Head(seqs) \o Flatten(Tail(seqs))

\* ceil(n / d)
CeilDiv(n, d) == (n + d - 1) \div d

\* The chunks the loop has gone through are consecutive slices of the
\* distinct titles, of chunk_size titles each but the last, so that no title
\* is fetched twice; the loop that is not ended by an exception ends, after
\* ceil(n / chunk_size) chunks that hold every title once, with fetched +
\* missing = n.
ChunksPartitionUnlessRaised ==
    /\ [](InChunks =>
            LET n == Len(loop.titles)
                done == Flatten(loop.chunks)
            IN  /\ Len(done) <= n
                /\ done = SubSeq(loop.titles, 1, Len(done))
                /\ \A j \in 1..n, k \in 1..n : loop.titles[j] = loop.titles[k] => j = k
                /\ \A c \in 1..loop.i :
                      Len(loop.chunks[c]) = Min(loop.chunk_size,
                                                n - (c - 1) * loop.chunk_size)
                /\ pc = "details_while" =>
                      /\ Len(loop.chunks) = loop.i
                      /\ loop.i <= CeilDiv(n, loop.chunk_size)
                      /\ loop.fetched + loop.missing = Len(done))
    /\ [][(pc = "details_while" /\ pc' = "update_analytics") =>
             /\ loop.i = CeilDiv(Len(loop.titles), loop.chunk_size)
             /\ Len(loop.chunks) = loop.i
             /\ Flatten(loop.chunks) = loop.titles
             /\ loop.fetched + loop.missing = Len(loop.titles)]_vars
    /\ (pc = "details_while") ~> (pc \in {"update_analytics", "crashed"})

\* C30: for every number n of distinct staged titles and every chunk_size,
\* the chunks partition the titles, each title is attempted exactly once,
\* and the loop ends after ceil(n / chunk_size) chunks with fetched +
\* missing = n: the only step that leaves the loop is its end.
C30_ChunksPartition ==
    /\ ChunksPartitionUnlessRaised
    /\ [][(pc = "details_while" /\ pc' # "details_while") =>
             /\ pc' = "update_analytics"
             /\ Len(loop.chunks) = CeilDiv(Len(loop.titles), loop.chunk_size)
             /\ loop.fetched + loop.missing = Len(loop.titles)]_vars

\* Three titles in chunks of two: the loop is over after two chunks, with
\* titles fetched and a title missing.
ChunksWholeRun ==
    /\ pc = "details_while"
    /\ Len(loop.titles) = 3 /\ loop.chunk_size = 2
    /\ ~chunk_guard(loop.i, loop.chunk_size, loop.titles)
    /\ Len(loop.chunks) = 2
    /\ loop.missing = 1 /\ loop.fetched = 2

====
